---- MODULE Spec2Model ----
(***************************************************************************)
(* Model of the M365 Roadmap cache-and-sync layer: the SQLite store        *)
(* (queries.ts, schema.sql), the HTTP fetcher (m365RoadmapClient.ts) and   *)
(* the sync coordinator (sync.service.ts).                                 *)
(*                                                                         *)
(* The store file is shared by every process that opens it.  Each SQL      *)
(* statement is atomic; the statements of db.transaction() are applied to  *)
(* a working copy (tx) that becomes the committed store (db) at COMMIT and *)
(* is discarded on ROLLBACK or when the writing process dies.  A JavaScript*)
(* continuation runs to completion inside its process: the await points of *)
(* performSync are the HTTP attempts and the backoff sleeps.               *)
(***************************************************************************)
EXTENDS Naturals, Integers, Sequences, FiniteSets, TLC

\* ------------------------------------------------------------------ bounds
MaxId == 2      \* feature identifiers 1..MaxId
MaxTime == 2    \* values of the 'modified' timestamp of remote records
MaxInv == 3     \* performSync invocation slots
MaxTok == 1     \* distinct ETag values the remote source hands out
MaxSyncs == 2   \* performSync calls that acquire the lock in one behaviour

\* -------------------------------------------------------- program constants
MAX_RETRIES == 3
RETRY_DELAY_MS == 1000
EPOCH == 0      \* '1970-01-01T00:00:00.000Z', the never-synced sentinel
HOUR == 20      \* 1000 * 60 * 60 ms, counted in clock units of three minutes
MAX_LIMIT == 10000
SummaryLength == 200  \* characters of a description a search result carries
STALENESS_HOURS == 1  \* index.ts: the age from which a launch starts a sync
AutoSyncHours == 24   \* README.md, Auto Sync: "every 24 hours"

\* ------------------------------------------------------------- value spaces
Ids == 1..MaxId
Times == 1..MaxTime
Inv == 1..MaxInv
Procs == {1, 2}
\* invocation slots 1..MaxInv-1 live in process 1, slot MaxInv in process 2
InvProc(i) == IF i < MaxInv THEN 1 ELSE 2
\* the wall clock is later than every 'modified' value of the remote data:
\* the latest record was modified 57 minutes ago, the others an hour ago or
\* earlier, and the epoch lies further back
Clock0 == MaxTime + HOUR - 1

Null == "null"
\* ETag values; NoETag stands for null (no header, nothing cached)
NoETag == 0
Tokens == 1..MaxTok
NoRow == [absent |-> TRUE]
NoTx == [none |-> TRUE]
NoDuration == 0 - 1

\* ----------------------------------------------------- remote feature data
\* api/types.ts M365RoadmapFeature: the record the remote source sends for
\* identifier id when its content was last changed at time m (the content
\* changes with the modified timestamp); dup: the record repeats a product tag
M365RoadmapFeature(id, m, dup) ==
  LET odd == m % 2 = 1
  IN [ id |-> id,
       title |-> IF odd THEN "Teams" ELSE "Copilot",
       description |-> IF odd THEN "d1" ELSE Null,
       status |-> IF odd THEN "In development" ELSE "Launched",
       generalAvailabilityDate |-> IF odd THEN "2026-01" ELSE Null,
       previewAvailabilityDate |-> IF odd THEN Null ELSE "2025-12",
       created |-> 1,
       modified |-> m,
       products |-> IF dup THEN <<"A", "A">> ELSE IF odd THEN <<"A", "B">> ELSE <<"C">>,
       platforms |-> IF odd THEN <<"Web">> ELSE <<>>,
       cloudInstances |-> IF odd THEN <<"WW">> ELSE <<"GCC">>,
       releaseRings |-> IF odd THEN <<"GA">> ELSE <<"Preview">>,
       availabilities |-> IF odd
                          THEN <<[ring |-> "GA", year |-> 2026, month |-> "January"]>>
                          ELSE <<>> ]

\* the records the source may send for one identifier: a well-formed record
\* for every timestamp, and a record of the latest timestamp that repeats a tag
RecordsOf(id) ==
  { M365RoadmapFeature(id, m, FALSE) : m \in Times }
    \cup { M365RoadmapFeature(id, MaxTime, TRUE) }

RECURSIVE PayloadsFrom(_)
\* the arrays data.value may hold: at most one record per identifier, in
\* identifier order, for the identifiers k..MaxId
PayloadsFrom(k) ==
  IF k > MaxId THEN { <<>> }
  ELSE LET rest == PayloadsFrom(k + 1)
       IN rest \cup { <<r>> \o p : r \in RecordsOf(k), p \in rest }

Payloads == PayloadsFrom(1)

\* ------------------------------------------------------------ store tables
TagKinds == {"products", "platforms", "cloudInstances", "releaseRings"}

\* schema.sql: the tables of an empty store; each association table holds
\* per feature its rows in insertion order, m365_features_fts holds per rowid
\* the entries of the full-text index; scan is the order in which a SELECT
\* visits the rows of m365_features in the store file
EmptyTables ==
  [ features |-> [id \in Ids |-> NoRow],
    products |-> [id \in Ids |-> <<>>],
    platforms |-> [id \in Ids |-> <<>>],
    cloudInstances |-> [id \in Ids |-> <<>>],
    releaseRings |-> [id \in Ids |-> <<>>],
    availabilities |-> [id \in Ids |-> <<>>],
    fts |-> [id \in Ids |-> <<>>],
    scan |-> [k \in Ids |-> k] ]

\* schema.sql: the checkpoint row inserted with the schema
InitialCheckpoint ==
  [ lastSync |-> EPOCH, syncStatus |-> "idle", recordCount |-> 0,
    lastSyncDurationMs |-> NoDuration, lastError |-> Null ]

RangeOf(s) == { s[k] : k \in 1..Len(s) }

\* association tables without the PRIMARY KEY
HasDuplicate_NoKey(s) == FALSE

\* a PRIMARY KEY (feature_id, tag) insert loop fails on a repeated tag
HasDuplicate(s) == \E a, b \in 1..Len(s) : a # b /\ s[a] = s[b]

RECURSIVE MaxOver(_, _)
MaxOver(S, init) ==
  IF S = {} THEN init
  ELSE LET x == CHOOSE y \in S : TRUE
           m == MaxOver(S \ {x}, init)
       IN IF x > m THEN x ELSE m

StoredIds(t) == { id \in Ids : t.features[id] # NoRow }

\* queries.ts getFeatureCount: SELECT COUNT(*) FROM m365_features
getFeatureCount(t) == Cardinality(StoredIds(t))

\* queries.ts getLastModified: SELECT MAX(modified); 0 stands for SQL NULL
getLastModified(t) == MaxOver({ t.features[id].modified : id \in StoredIds(t) }, 0)

\* the entry of the full-text index for a row
FtsEntry(row) == [title |-> row.title, description |-> row.description]

\* entries without the first occurrence of entry e
RemoveOne(entries, e) ==
  IF \E k \in 1..Len(entries) : entries[k] = e
  THEN LET at == CHOOSE k \in 1..Len(entries) :
                   entries[k] = e /\ \A j \in 1..(k - 1) : entries[j] # e
       IN SubSeq(entries, 1, at - 1) \o SubSeq(entries, at + 1, Len(entries))
  ELSE entries

\* schema.sql trigger m365_features_ai (AFTER INSERT): the index gets an
\* entry for the new row
m365_features_ai(t, id, new) == [t EXCEPT !.fts[id] = Append(@, FtsEntry(new))]

\* an update trigger that does not delete the old entry
m365_features_au_KeepsOld(t, id, old, new) ==
  [t EXCEPT !.fts[id] = Append(@, FtsEntry(new))]

\* schema.sql trigger m365_features_au (AFTER UPDATE): the entry of the old
\* values is deleted from the index and an entry of the new values inserted
m365_features_au(t, id, old, new) ==
  [t EXCEPT !.fts[id] = Append(RemoveOne(@, FtsEntry(old)), FtsEntry(new))]

\* an upsert that overwrites created as well
UpsertedRow_OverwritesCreated(old, f) ==
  [ title |-> f.title, description |-> f.description, status |-> f.status,
    generalAvailabilityDate |-> f.generalAvailabilityDate,
    previewAvailabilityDate |-> f.previewAvailabilityDate,
    created |-> f.created, modified |-> f.modified ]

\* queries.ts upsertFeature: the row that INSERT ... ON CONFLICT(id) DO
\* UPDATE SET leaves for record f where the row old was stored (NoRow: none);
\* the update sets every scalar column except created
UpsertedRow(old, f) ==
  [ title |-> f.title, description |-> f.description, status |-> f.status,
    generalAvailabilityDate |-> f.generalAvailabilityDate,
    previewAvailabilityDate |-> f.previewAvailabilityDate,
    created |-> IF old = NoRow THEN f.created ELSE old.created,
    modified |-> f.modified ]

\* a full refresh: the statement leaves the row of f as the only row
upsertFeature_Refresh(t, f) ==
  LET row == UpsertedRow(NoRow, f)
  IN [t EXCEPT !.features = [id \in Ids |-> IF id = f.id THEN row ELSE NoRow],
               !.fts = [id \in Ids |-> IF id = f.id THEN <<FtsEntry(row)>> ELSE <<>>]]

\* queries.ts upsertFeature, with the trigger the statement fires
upsertFeature(t, f) ==
  LET old == t.features[f.id]
      row == UpsertedRow(old, f)
      written == [t EXCEPT !.features[f.id] = row]
  IN IF old = NoRow THEN m365_features_ai(written, f.id, row)
     ELSE m365_features_au(written, f.id, old, row)

\* a replacement without the DELETE
replaceFeatureTags_Appends(t, kind, id, tags) == [t EXCEPT ![kind][id] = @ \o tags]

\* queries.ts replaceFeatureProducts / Platforms / CloudInstances /
\* ReleaseRings: DELETE the feature's rows, then INSERT one row per tag (the
\* table after a loop in which no INSERT throws)
replaceFeatureTags(t, kind, id, tags) == [t EXCEPT ![kind][id] = tags]

\* queries.ts replaceFeatureAvailabilities: DELETE then INSERT (no key on the
\* entry, AUTOINCREMENT row id)
replaceFeatureAvailabilities(t, id, avs) == [t EXCEPT !.availabilities[id] = avs]

\* queries.ts getFeatureById, first statement: SELECT ... FROM m365_features
getFeatureRow(t, id) == t.features[id]

\* queries.ts getFeatureById, the five association SELECTs
getFeatureTags(t, id) ==
  [ products |-> t.products[id], platforms |-> t.platforms[id],
    cloudInstances |-> t.cloudInstances[id],
    releaseRings |-> t.releaseRings[id],
    availabilities |-> t.availabilities[id] ]

\* queries.ts getFeatureById: the object built from the row and the
\* association reads, or null (NoRow) without a row
FeatureOf(row, tags) ==
  IF row = NoRow THEN NoRow
  ELSE [ row |-> row, products |-> tags.products, platforms |-> tags.platforms,
         cloudInstances |-> tags.cloudInstances,
         releaseRings |-> tags.releaseRings,
         availabilities |-> tags.availabilities ]

\* queries.ts getFeatureById with every statement run on the same store t
getFeatureById(t, id) == FeatureOf(getFeatureRow(t, id), getFeatureTags(t, id))

\* what getFeatureById returns for a feature stored exactly as record f
StoredAs(f) ==
  getFeatureById(
    replaceFeatureAvailabilities(
      replaceFeatureTags(replaceFeatureTags(replaceFeatureTags(replaceFeatureTags(
        upsertFeature(EmptyTables, f),
        "products", f.id, f.products), "platforms", f.id, f.platforms),
        "cloudInstances", f.id, f.cloudInstances), "releaseRings", f.id, f.releaseRings),
      f.id, f.availabilities), f.id)

\* queries.ts searchFeatures with no filter, the row and count statements
searchRows(t) ==
  [ rows |-> { [ id |-> id, title |-> t.features[id].title,
                 modified |-> t.features[id].modified ] : id \in StoredIds(t) },
    totalCount |-> getFeatureCount(t) ]

\* queries.ts searchFeatures: the result items, each row with the product
\* and platform tags read for it from store t
searchItems(rowsRead, t) ==
  [ results |-> { [ id |-> r.id, title |-> r.title, modified |-> r.modified,
                    products |-> t.products[r.id],
                    platforms |-> t.platforms[r.id] ] : r \in rowsRead.rows },
    totalCount |-> rowsRead.totalCount ]

\* queries.ts searchFeatures with every statement run on the same store t
searchFeatures(t) == searchItems(searchRows(t), t)

\* ------------------------------------------------------------- checkpoint
\* startSync without the sync_status != 'syncing' condition
startSync_Unconditional(c) ==
  [acquired |-> TRUE, cp |-> [c EXCEPT !.syncStatus = "syncing"]]

\* startSync that tests the status but does not write it
startSync_StatusNotWritten(c) ==
  [acquired |-> c.syncStatus # "syncing", cp |-> c]

\* queries.ts startSync: UPDATE ... SET sync_status = 'syncing'
\* WHERE id = 1 AND sync_status != 'syncing'; returns changes > 0
startSync(c) ==
  IF c.syncStatus # "syncing"
  THEN [acquired |-> TRUE, cp |-> [c EXCEPT !.syncStatus = "syncing"]]
  ELSE [acquired |-> FALSE, cp |-> c]

\* completeSyncSuccess that leaves last_sync as it was
completeSyncSuccess_KeepsLastSync(c, lastSync, recordCount, durationMs) ==
  [ lastSync |-> c.lastSync, syncStatus |-> "idle", recordCount |-> recordCount,
    lastSyncDurationMs |-> durationMs, lastError |-> Null ]

\* queries.ts completeSyncSuccess
completeSyncSuccess(c, lastSync, recordCount, durationMs) ==
  [ lastSync |-> lastSync, syncStatus |-> "idle", recordCount |-> recordCount,
    lastSyncDurationMs |-> durationMs, lastError |-> Null ]

\* queries.ts completeSyncFailure
completeSyncFailure(c, errorMessage) ==
  [c EXCEPT !.syncStatus = "idle", !.lastError = errorMessage]

\* queries.ts getStoredETag: the token of api_cache row 1; a missing table or
\* a missing row reads as null
getStoredETag(a) == IF a.exists THEN a.etag ELSE NoETag

\* queries.ts saveETag: upsert of api_cache row 1; a missing table is ignored
saveETag(a, etag) == IF a.exists THEN [a EXCEPT !.etag = etag] ELSE a

\* ------------------------------------------------------------ sync results
NoResult == [op |-> "none"]

\* sync.service.ts createSyncFailureResult
createSyncFailureResult(error) ==
  [ success |-> FALSE, recordsProcessed |-> 0, recordsInserted |-> 0,
    recordsUpdated |-> 0, error |-> error ]

\* a result that counts every processed record as updated
SyncSuccessResult_AllUpdated(processed, inserted) ==
  [ success |-> TRUE, recordsProcessed |-> processed, recordsInserted |-> inserted,
    recordsUpdated |-> processed, error |-> Null ]

\* sync.service.ts performSync: the success result, recordsUpdated being
\* result.recordsProcessed - recordsInserted
SyncSuccessResult(processed, inserted) ==
  [ success |-> TRUE, recordsProcessed |-> processed, recordsInserted |-> inserted,
    recordsUpdated |-> processed - inserted, error |-> Null ]

\* the filter with >= in place of >
FeaturesToSync_NotStrict(features, lastModified) ==
  IF lastModified # 0
  THEN SelectSeq(features, LAMBDA f : f.modified >= lastModified)
  ELSE features

\* sync.service.ts performSync: features.filter(f => f.modified > lastModified),
\* or the whole array when the store has no feature
FeaturesToSync(features, lastModified) ==
  IF lastModified # 0
  THEN SelectSeq(features, LAMBDA f : f.modified > lastModified)
  ELSE features

\* the reduce started from the epoch instead of the checkpoint's value
LatestModified_FromEpoch(features, lastSync) ==
  MaxOver({ features[k].modified : k \in 1..Len(features) }, EPOCH)

\* sync.service.ts performSync: features.reduce(max modified, checkpoint.lastSync)
LatestModified(features, lastSync) ==
  MaxOver({ features[k].modified : k \in 1..Len(features) }, lastSync)

\* the backoff with the exponent off by one
RetryDelay_OffByOne(attempt) == RETRY_DELAY_MS * (2 ^ attempt)

\* m365RoadmapClient.ts fetchWithRetry: RETRY_DELAY_MS * 2^(attempt - 1)
RetryDelay(attempt) == RETRY_DELAY_MS * (2 ^ (attempt - 1))

\* a fetcher that sends the cached token whether or not the cache is to be used
IfNoneMatch_IgnoresUseCache(useCache, cached) == cached

\* m365RoadmapClient.ts fetchAllFeaturesWithETag: the validator handed to
\* fetchWithRetry, useCache ? (cachedETag ?? undefined) : undefined; the
\* If-None-Match header is set only for a validator that is not empty
IfNoneMatch(useCache, cached) == IF useCache THEN cached ELSE NoETag

\* m365RoadmapClient.ts fetchAllFeaturesWithETag: the value returned for a
\* 304 answer, cached being the module variable when the answer arrives
NotModifiedResult(cached) ==
  [modified |-> FALSE, features |-> <<>>, etag |-> cached]

\* m365RoadmapClient.ts fetchAllFeaturesWithETag: the value returned for a
\* 2xx answer with the array features and the ETag header newETag
ModifiedResult(features, newETag) ==
  [modified |-> TRUE, features |-> features, etag |-> newETag]

\* sync.service.ts syncFeaturesInTransaction: the error rethrown for a record
WriteError(id) == "Failed to sync feature " \o ToString(id)

\* ------------------------------------------------------------------ state
VARIABLES
  db,          \* committed tables of the store file
  tx,          \* working copy of the open write transaction, or NoTx
  sync_checkpoint,  \* the sync_checkpoint table: its rows by id
  apiCache,    \* the api_cache table: whether it exists, and the token of row 1
  cachedETag,  \* per process: the module variable cachedETag of the fetcher
  inv,         \* per invocation slot: position and locals of one performSync call
  now,         \* wall clock
  ret,         \* what the call that ended in the latest step returned, or NoResult
  snap,        \* history: the store as it was when the held lock was acquired
  orphan,      \* history: position and working copy of a lock holder that was killed
  syncs,       \* history: number of performSync calls that acquired the lock
  rd,          \* the query in progress: what its first statement read, or NoRead
  main         \* per process: the position of main() of index.ts

vars == <<db, tx, sync_checkpoint, apiCache, cachedETag, inv, now, ret, snap, orphan, syncs, rd,
          main>>

\* a sync_checkpoint table that holds the row c under id 1
CheckpointTable(c) == [id \in {1} |-> c]

\* queries.ts getSyncCheckpoint: SELECT ... FROM sync_checkpoint WHERE id = 1,
\* or null without such a row
getSyncCheckpoint(table) == IF 1 \in DOMAIN table THEN table[1] ELSE NoRow

\* the checkpoint as the coordinator reads it
cp == getSyncCheckpoint(sync_checkpoint)

\* a write that adds a row for every status change
UpdateCheckpoint_AddsRow(table, c) ==
  [id \in DOMAIN table \cup {Cardinality(DOMAIN table) + 1} |->
     IF id \in DOMAIN table /\ id # 1 THEN table[id] ELSE c]

\* queries.ts startSync / completeSyncSuccess / completeSyncFailure:
\* UPDATE sync_checkpoint SET (the columns of c) WHERE id = 1
UpdateCheckpoint(table, c) ==
  [id \in DOMAIN table |-> IF id = 1 THEN c ELSE table[id]]

IdleInv ==
  [ pc |-> "idle", startTime |-> 0, recordCountBefore |-> 0,
    cpLastSync |-> 0, ifNoneMatch |-> NoETag, attempt |-> 0, delay |-> 0,
    features |-> <<>>, etag |-> NoETag, queue |-> <<>>, stmt |-> 0,
    processed |-> 0, err |-> Null ]

NoOrphan == [pc |-> "none", tx |-> NoTx]

NoRead == [proc |-> 0]

NoSnap ==
  [ tables |-> EmptyTables, cp |-> InitialCheckpoint,
    apiCache |-> [exists |-> FALSE, etag |-> NoETag] ]

\* positions between a successful startSync and completeSyncSuccess/Failure
Holding == {"fetching", "sleeping", "writing", "finalize", "catch"}
\* positions inside one synchronous continuation (no await in between)
Synchronous == {"writing", "finalize", "catch"}

Holders == { i \in Inv : inv[i].pc \in Holding }

\* a call can start, and an awaited call can resume, in process p only
\* between the continuations of p
CanRun(p) ==
  /\ \A j \in Inv : InvProc(j) = p => inv[j].pc \notin Synchronous
  /\ rd.proc # p

\* the calls in flight in one process occupy its lowest slots: a new call
\* takes the first free slot of its process
FreeSlot(i) ==
  /\ inv[i].pc = "idle"
  /\ \A j \in Inv : (InvProc(j) = InvProc(i) /\ j < i) => inv[j].pc # "idle"

\* the value a performSync call resolves to (path names the branch taken)
Returns(i, path, result) ==
  [op |-> "performSync", inv |-> i, path |-> path, result |-> result]

\* a performSync call whose promise rejects with error (path names where)
Rejects(i, path, error) ==
  [op |-> "performSync", inv |-> i, path |-> path,
   result |-> [rejected |-> TRUE, error |-> error]]

\* database.ts initializeDatabase + schema.sql: a store created from the
\* schema, which creates no api_cache table (queries.ts reads and writes that
\* table under try/catch)
Init ==
  /\ db = EmptyTables
  /\ tx = NoTx
  /\ sync_checkpoint = CheckpointTable(InitialCheckpoint)
  /\ apiCache = [exists |-> FALSE, etag |-> NoETag]
  /\ cachedETag = [p \in Procs |-> NoETag]
  /\ inv = [i \in Inv |-> IdleInv]
  /\ now = Clock0
  /\ ret = NoResult
  /\ snap = NoSnap
  /\ orphan = NoOrphan
  /\ rd = NoRead
  /\ syncs = 0
  /\ main = [p \in Procs |-> "running"]

\* ------------------------------------------------------- performSync: start
\* sync.service.ts performSync up to the first await: startSync, then (lock
\* acquired) getSyncCheckpoint, getFeatureCount, getStoredETag, setCachedETag
\* and the first HTTP attempt of fetchAllFeaturesWithETag(!force);
\* readOk = FALSE: getSyncCheckpoint or getFeatureCount throws inside the try
PerformSync(i, force, readOk) ==
  LET p == InvProc(i)
      lock == startSync(cp)
      storedETag == getStoredETag(apiCache)
      cached == IF storedETag # NoETag /\ ~force
                THEN [cachedETag EXCEPT ![p] = storedETag] ELSE cachedETag
  IN /\ CanRun(p)
     /\ FreeSlot(i)
     /\ IF ~lock.acquired
        THEN /\ readOk
             /\ ret' = Returns(i, "conflict",
                               createSyncFailureResult("Sync already in progress"))
             /\ UNCHANGED <<db, tx, sync_checkpoint, apiCache, cachedETag, inv, snap, syncs, rd>>
        ELSE /\ syncs < MaxSyncs
             /\ syncs' = syncs + 1
             /\ sync_checkpoint' = UpdateCheckpoint(sync_checkpoint, lock.cp)
             /\ snap' = [tables |-> db, cp |-> cp, apiCache |-> apiCache]
             /\ ret' = NoResult
             /\ IF readOk
                THEN /\ cachedETag' = cached
                     /\ inv' = [inv EXCEPT ![i] =
                          [IdleInv EXCEPT !.pc = "fetching",
                             !.startTime = now,
                             !.recordCountBefore = getFeatureCount(db),
                             !.cpLastSync = lock.cp.lastSync,
                             !.ifNoneMatch = IfNoneMatch(~force, cached[p]),
                             !.attempt = 1]]
                ELSE /\ cachedETag' = cachedETag
                     /\ inv' = [inv EXCEPT ![i] =
                          [IdleInv EXCEPT !.pc = "catch",
                             !.startTime = now, !.err = "SQLITE_IOERR"]]
             /\ UNCHANGED <<db, tx, apiCache>>
     /\ UNCHANGED <<now, orphan, rd>>

\* ------------------------------------------------------------ fetchWithRetry
FetchErrors == {"fetch failed", "This operation was aborted", "HTTP 500"}

\* m365RoadmapClient.ts fetchWithRetry, catch branch: a network error, the
\* timeout abort or a status that is neither 2xx nor 304.  The last attempt
\* rethrows to performSync's catch; an earlier one starts the backoff sleep
FetchFails(i, msg) ==
  /\ inv[i].pc = "fetching"
  /\ CanRun(InvProc(i))
  /\ IF inv[i].attempt = MAX_RETRIES
     THEN inv' = [inv EXCEPT ![i].pc = "catch", ![i].err = msg]
     ELSE inv' = [inv EXCEPT ![i].pc = "sleeping",
                             ![i].delay = RetryDelay(inv[i].attempt)]
  /\ ret' = NoResult
  /\ UNCHANGED <<db, tx, sync_checkpoint, apiCache, cachedETag, now, snap, orphan, syncs, rd>>

\* m365RoadmapClient.ts fetchWithRetry: sleep(delay) is over, next attempt
SleepDone(i) ==
  /\ inv[i].pc = "sleeping"
  /\ CanRun(InvProc(i))
  /\ inv' = [inv EXCEPT ![i].pc = "fetching", ![i].attempt = @ + 1, ![i].delay = 0]
  /\ ret' = NoResult
  /\ UNCHANGED <<db, tx, sync_checkpoint, apiCache, cachedETag, now, snap, orphan, syncs, rd>>

\* a not-modified path that persists the token kept in memory
FetchNotModified_SavesToken(i) ==
  /\ inv[i].pc = "fetching"
  /\ CanRun(InvProc(i))
  /\ inv[i].ifNoneMatch # NoETag
  /\ sync_checkpoint' = UpdateCheckpoint(sync_checkpoint,
       completeSyncSuccess(cp, now, inv[i].recordCountBefore, now - inv[i].startTime))
  /\ apiCache' = saveETag(apiCache, cachedETag[InvProc(i)])
  /\ inv' = [inv EXCEPT ![i] = IdleInv]
  /\ ret' = Returns(i, "notModified", SyncSuccessResult(0, 0))
  /\ snap' = NoSnap
  /\ UNCHANGED <<db, tx, cachedETag, now, orphan, syncs, rd>>

\* status 304 (only a request that carried If-None-Match is answered so):
\* fetchAllFeaturesWithETag returns modified = false and performSync takes
\* the not-modified path: completeSyncSuccess(now, recordCountBefore)
FetchNotModified(i) ==
  /\ inv[i].pc = "fetching"
  /\ CanRun(InvProc(i))
  /\ inv[i].ifNoneMatch # NoETag
  /\ ~NotModifiedResult(cachedETag[InvProc(i)]).modified
  /\ sync_checkpoint' = UpdateCheckpoint(sync_checkpoint,
       completeSyncSuccess(cp, now, inv[i].recordCountBefore, now - inv[i].startTime))
  /\ inv' = [inv EXCEPT ![i] = IdleInv]
  /\ ret' = Returns(i, "notModified", SyncSuccessResult(0, 0))
  /\ snap' = NoSnap
  /\ UNCHANGED <<db, tx, apiCache, cachedETag, now, orphan, syncs, rd>>

\* status 2xx whose body is not JSON: response.json() rejects before the
\* token is cached; the error reaches performSync's catch
FetchBadBody(i) ==
  /\ inv[i].pc = "fetching"
  /\ CanRun(InvProc(i))
  /\ inv' = [inv EXCEPT ![i].pc = "catch", ![i].err = "Unexpected token"]
  /\ ret' = NoResult
  /\ UNCHANGED <<db, tx, sync_checkpoint, apiCache, cachedETag, now, snap, orphan, syncs, rd>>

\* status 2xx with the array features and the ETag header etag (Null: none):
\* fetchAllFeaturesWithETag caches the token; performSync then takes the
\* empty path, or reads the watermark, filters, and opens the transaction;
\* diffOk = FALSE: getLastModified throws
FetchOk(i, body, newETag, diffOk) ==
  LET p == InvProc(i)
      fetchResult == ModifiedResult(body, newETag)
      features == fetchResult.features
      etag == fetchResult.etag
      toSync == FeaturesToSync(features, getLastModified(db))
  IN /\ inv[i].pc = "fetching"
     /\ CanRun(p)
     /\ fetchResult.modified
     /\ cachedETag' = IF newETag # NoETag THEN [cachedETag EXCEPT ![p] = newETag]
                                         ELSE cachedETag
     /\ IF features = <<>>
        THEN /\ diffOk
             /\ sync_checkpoint' = UpdateCheckpoint(sync_checkpoint,
                  completeSyncSuccess(cp, now, inv[i].recordCountBefore,
                                      now - inv[i].startTime))
             /\ inv' = [inv EXCEPT ![i] = IdleInv]
             /\ ret' = Returns(i, "empty", SyncSuccessResult(0, 0))
             /\ snap' = NoSnap
             /\ UNCHANGED tx
        ELSE IF ~diffOk
        THEN /\ inv' = [inv EXCEPT ![i].pc = "catch", ![i].err = "SQLITE_IOERR"]
             /\ ret' = NoResult
             /\ UNCHANGED <<sync_checkpoint, tx, snap>>
        ELSE IF toSync = <<>>
        THEN /\ inv' = [inv EXCEPT ![i].pc = "finalize", ![i].features = features,
                                   ![i].etag = etag]
             /\ ret' = NoResult
             /\ UNCHANGED <<sync_checkpoint, tx, snap>>
        ELSE /\ tx = NoTx
             /\ tx' = db
             /\ inv' = [inv EXCEPT ![i].pc = "writing", ![i].features = features,
                                   ![i].etag = etag, ![i].queue = toSync, ![i].stmt = 1]
             /\ ret' = NoResult
             /\ UNCHANGED <<sync_checkpoint, snap>>
     /\ UNCHANGED <<db, apiCache, now, orphan, syncs, rd>>

\* ------------------------------------------- syncFeaturesInTransaction
\* statement k of the loop body for record f: 1 upsertFeature, 2..5 the four
\* tag replacements, 6 replaceFeatureAvailabilities
TxStatement(t, f, k) ==
  CASE k = 1 -> upsertFeature(t, f)
    [] k = 2 -> replaceFeatureTags(t, "products", f.id, f.products)
    [] k = 3 -> replaceFeatureTags(t, "platforms", f.id, f.platforms)
    [] k = 4 -> replaceFeatureTags(t, "cloudInstances", f.id, f.cloudInstances)
    [] k = 5 -> replaceFeatureTags(t, "releaseRings", f.id, f.releaseRings)
    [] OTHER -> replaceFeatureAvailabilities(t, f.id, f.availabilities)

\* schema.sql PRIMARY KEY (feature_id, tag): statement k violates it
TxStatementThrows(f, k) ==
  \/ k = 2 /\ HasDuplicate(f.products)
  \/ k = 3 /\ HasDuplicate(f.platforms)
  \/ k = 4 /\ HasDuplicate(f.cloudInstances)
  \/ k = 5 /\ HasDuplicate(f.releaseRings)

\* the whole loop body for one record
SyncOneFeature(t, f) ==
  TxStatement(TxStatement(TxStatement(TxStatement(TxStatement(TxStatement(
    t, f, 1), f, 2), f, 3), f, 4), f, 5), f, 6)

RECURSIVE SyncAll(_, _)
\* the store after the loop has run over the whole array fs
SyncAll(t, fs) == IF fs = <<>> THEN t ELSE SyncAll(SyncOneFeature(t, Head(fs)), Tail(fs))

\* a failed transaction that keeps the statements already run
Rollback_KeepsWorking(committed, working) == working

\* better-sqlite3 db.transaction: what a failed transaction leaves committed
Rollback(committed, working) == committed

\* better-sqlite3 db.transaction / WAL: what a reader sees while a write
\* transaction is open
ReadView(committed, working) == committed

\* one statement of the loop body runs on the working copy; a statement
\* that throws is rethrown as "Failed to sync feature <id>", the
\* transaction rolls back and performSync's catch runs next
TxStep(i) ==
  LET f == Head(inv[i].queue)
      k == inv[i].stmt
  IN /\ inv[i].pc = "writing"
     /\ inv[i].queue # <<>>
     /\ IF TxStatementThrows(f, k)
        THEN /\ db' = Rollback(db, tx)
             /\ tx' = NoTx
             /\ inv' = [inv EXCEPT ![i].pc = "catch", ![i].err = WriteError(f.id)]
        ELSE /\ tx' = TxStatement(tx, f, k)
             /\ db' = db
             /\ inv' = IF k < 6
                       THEN [inv EXCEPT ![i].stmt = k + 1]
                       ELSE [inv EXCEPT ![i].stmt = 1, ![i].queue = Tail(@),
                                        ![i].processed = @ + 1]
     /\ ret' = NoResult
     /\ UNCHANGED <<sync_checkpoint, apiCache, cachedETag, now, snap, orphan, syncs, rd>>

\* the storage engine fails the statement (disk full, I/O error): same path
TxStorageError(i) ==
  /\ inv[i].pc = "writing"
  /\ inv[i].queue # <<>>
  /\ db' = Rollback(db, tx)
  /\ tx' = NoTx
  /\ inv' = [inv EXCEPT ![i].pc = "catch", ![i].err = WriteError(Head(inv[i].queue).id)]
  /\ ret' = NoResult
  /\ UNCHANGED <<sync_checkpoint, apiCache, cachedETag, now, snap, orphan, syncs, rd>>

\* a loop end that goes on to the checkpoint update without COMMIT
TxCommit_Deferred(i) ==
  /\ inv[i].pc = "writing"
  /\ inv[i].queue = <<>>
  /\ inv' = [inv EXCEPT ![i].pc = "finalize"]
  /\ ret' = NoResult
  /\ UNCHANGED <<db, tx, sync_checkpoint, apiCache, cachedETag, now, snap, orphan, syncs, rd>>

\* the loop is over: COMMIT
TxCommit(i) ==
  /\ inv[i].pc = "writing"
  /\ inv[i].queue = <<>>
  /\ db' = tx
  /\ tx' = NoTx
  /\ inv' = [inv EXCEPT ![i].pc = "finalize"]
  /\ ret' = NoResult
  /\ UNCHANGED <<sync_checkpoint, apiCache, cachedETag, now, snap, orphan, syncs, rd>>

\* sync.service.ts performSync after the write: getFeatureCount, saveETag,
\* latestModified, completeSyncSuccess, the result;
\* ok = FALSE: completeSyncSuccess throws (after saveETag ran)
Finalize(i, ok) ==
  LET recordCountAfter == getFeatureCount(db)
      inserted == IF recordCountAfter > inv[i].recordCountBefore
                  THEN recordCountAfter - inv[i].recordCountBefore ELSE 0
  IN /\ inv[i].pc = "finalize"
     /\ apiCache' = IF inv[i].etag # NoETag THEN saveETag(apiCache, inv[i].etag) ELSE apiCache
     /\ IF ok
        THEN /\ sync_checkpoint' = UpdateCheckpoint(sync_checkpoint,
                  completeSyncSuccess(cp, LatestModified(inv[i].features, inv[i].cpLastSync),
                                      recordCountAfter, now - inv[i].startTime))
             /\ inv' = [inv EXCEPT ![i] = IdleInv]
             /\ ret' = Returns(i, "written", SyncSuccessResult(inv[i].processed, inserted))
             /\ snap' = NoSnap
        ELSE /\ sync_checkpoint' = sync_checkpoint
             /\ inv' = [inv EXCEPT ![i].pc = "catch", ![i].err = "SQLITE_IOERR"]
             /\ ret' = NoResult
             /\ snap' = snap
     /\ UNCHANGED <<db, tx, cachedETag, now, orphan, syncs, rd>>

\* sync.service.ts performSync catch: completeSyncFailure(err.message) and
\* the failure result
CatchError(i) ==
  /\ inv[i].pc = "catch"
  /\ sync_checkpoint' = UpdateCheckpoint(sync_checkpoint, completeSyncFailure(cp, inv[i].err))
  /\ inv' = [inv EXCEPT ![i] = IdleInv]
  /\ ret' = Returns(i, "failed", createSyncFailureResult(inv[i].err))
  /\ snap' = NoSnap
  /\ UNCHANGED <<db, tx, apiCache, cachedETag, now, orphan, syncs, rd>>

\* ------------------------------------------------- storage faults outside try
\* sync.service.ts performSync: startSync runs before the try block; when its
\* UPDATE throws (SQLITE_BUSY after busy_timeout, I/O error) the promise rejects
StartSyncThrows(i) ==
  /\ CanRun(InvProc(i))
  /\ FreeSlot(i)
  /\ ret' = Rejects(i, "rejectedAtLock", "SQLITE_BUSY")
  /\ UNCHANGED <<db, tx, sync_checkpoint, apiCache, cachedETag, inv, now, snap, orphan, syncs, rd>>

\* sync.service.ts performSync catch: completeSyncFailure itself throws; the
\* error leaves the catch block and the promise rejects
CatchErrorThrows(i) ==
  /\ inv[i].pc = "catch"
  /\ inv' = [inv EXCEPT ![i] = IdleInv]
  /\ ret' = Rejects(i, "rejectedInCatch", "SQLITE_IOERR")
  /\ snap' = NoSnap
  /\ UNCHANGED <<db, tx, sync_checkpoint, apiCache, cachedETag, now, orphan, syncs, rd>>

\* ------------------------------------------------------------- environment
\* database.ts initializeDatabase on an existing store: schema_version
\* exists, so the schema is not applied again and no row is written
\* an initialisation that sets a 'syncing' checkpoint back to 'idle'
initializeDatabase_ResetsLock(table) ==
  [id \in DOMAIN table |-> [table[id] EXCEPT !.syncStatus = "idle"]]

initializeDatabase(table) == table

\* a store file that keeps the statements of the uncommitted transaction
CrashRecovery_KeepsWorking(committed, working) == working

\* SQLite journal (WAL): what the store file holds after the process that had
\* a write transaction open died before COMMIT
CrashRecovery(committed, working) == committed

\* process p is killed and started again: its calls and its memory are gone,
\* its open write transaction is never committed, the store file keeps what
\* was committed, and initializeDatabase reopens it
Restart(p) ==
  LET mine == { i \in Inv : InvProc(i) = p }
      held == { i \in mine : inv[i].pc \in Holding }
  IN /\ inv' = [i \in Inv |-> IF i \in mine THEN IdleInv ELSE inv[i]]
     /\ cachedETag' = [cachedETag EXCEPT ![p] = NoETag]
     /\ IF \E i \in mine : inv[i].pc = "writing"
        THEN /\ tx' = NoTx
             /\ db' = CrashRecovery(db, tx)
        ELSE UNCHANGED <<db, tx>>
     /\ orphan' = IF held # {}
                  THEN [pc |-> inv[CHOOSE i \in held : TRUE].pc, tx |-> tx]
                  ELSE orphan
     /\ rd' = IF rd.proc = p THEN NoRead ELSE rd
     /\ sync_checkpoint' = initializeDatabase(sync_checkpoint)
     /\ ret' = NoResult
     /\ UNCHANGED <<apiCache, now, snap, syncs>>

\* get_m365_update: getFeatureById on the connection of process p runs its
\* SELECTs one by one, each on what is committed when it runs; first the row
GetByIdRow(p, id) ==
  LET row == getFeatureRow(ReadView(db, tx), id)
  IN /\ CanRun(p)
     /\ rd = NoRead
     /\ IF row = NoRow
        THEN /\ ret' = [op |-> "getById", id |-> id, value |-> NoRow, started |-> db]
             /\ rd' = rd
        ELSE /\ ret' = NoResult
             /\ rd' = [proc |-> p, op |-> "getById", id |-> id, first |-> row,
                       started |-> db]
     /\ UNCHANGED <<db, tx, sync_checkpoint, apiCache, cachedETag, inv, now, snap, orphan, syncs>>

\* ... then the association reads, and the value is returned
GetByIdTags(p) ==
  /\ rd.proc = p
  /\ rd.op = "getById"
  /\ ret' = [op |-> "getById", id |-> rd.id,
             value |-> FeatureOf(rd.first, getFeatureTags(ReadView(db, tx), rd.id)),
             started |-> rd.started]
  /\ rd' = NoRead
  /\ UNCHANGED <<db, tx, sync_checkpoint, apiCache, cachedETag, inv, now, snap, orphan, syncs>>

\* search_m365_roadmap: searchFeatures on the connection of process p; first
\* the row and count statements
SearchRows(p) ==
  /\ CanRun(p)
  /\ rd = NoRead
  /\ rd' = [proc |-> p, op |-> "search", first |-> searchRows(ReadView(db, tx)),
            started |-> db]
  /\ ret' = NoResult
  /\ UNCHANGED <<db, tx, sync_checkpoint, apiCache, cachedETag, inv, now, snap, orphan, syncs>>

\* ... then the tag reads for every row, and the value is returned
SearchTags(p) ==
  /\ rd.proc = p
  /\ rd.op = "search"
  /\ ret' = [op |-> "search", value |-> searchItems(rd.first, ReadView(db, tx)),
             started |-> rd.started]
  /\ rd' = NoRead
  /\ UNCHANGED <<db, tx, sync_checkpoint, apiCache, cachedETag, inv, now, snap, orphan, syncs>>

\* ------------------------------------------------------ sync_m365_roadmap
\* JavaScript values as the tool arguments carry them
Undefined == [t |-> "undefined"]
JsBoolean(b) == [t |-> "boolean", v |-> b]
JsString(str) == [t |-> "string", v |-> str]
JsNumber(n) == [t |-> "number", v |-> n]
\* an arguments object of sync_m365_roadmap whose property force is v
\* (Undefined: the object has no such property)
SyncArgs(v) == [t |-> "object", force |-> v]

\* JavaScript ToBoolean
Truthy(v) ==
  CASE v.t = "boolean" -> v.v
    [] v.t = "string" -> v.v # ""
    [] v.t = "number" -> v.v # 0
    [] v.t = "object" -> TRUE
    [] OTHER -> FALSE

\* what request.params.arguments may be for sync_m365_roadmap: absent, {},
\* {force: false}, {force: true}, {force: "true"}
SyncArgsValues ==
  { Undefined, SyncArgs(Undefined), SyncArgs(JsBoolean(FALSE)),
    SyncArgs(JsBoolean(TRUE)), SyncArgs(JsString("true")) }

\* types.ts createSuccessResponse: the data serialised as the text content,
\* isError absent
createSuccessResponse(data) == [isError |-> FALSE, data |-> data]

\* types.ts createErrorResponse: {error: message} with isError: true
createErrorResponse(message) == [isError |-> TRUE, data |-> [error |-> message]]

\* sync.service.ts getSyncStatus: hoursSinceSync is
\* Math.round(((now - lastSync) / HOUR) * 10) / 10, kept here in tenths
getSyncStatus(c, clock) ==
  [ lastSync |-> c.lastSync, syncStatus |-> c.syncStatus,
    recordCount |-> c.recordCount,
    hoursSinceSyncTenths |-> (20 * (clock - c.lastSync) + HOUR) \div (2 * HOUR) ]

\* syncM365Roadmap.ts handleSyncM365Roadmap: the response built from the
\* result performSync resolved to
SyncToolResponse(result) ==
  IF ~result.success
  THEN createErrorResponse("Sync failed: " \o result.error)
  ELSE createSuccessResponse(
         [ message |-> "Sync completed successfully",
           recordsProcessed |-> result.recordsProcessed,
           recordsInserted |-> result.recordsInserted,
           recordsUpdated |-> result.recordsUpdated ])

\* the handler's call ended in this step without reaching performSync
ToolEnds(i, args, outcome, value) ==
  [op |-> "sync_m365_roadmap", inv |-> i, args |-> args,
   outcome |-> outcome, value |-> value]

\* syncM365Roadmap.ts handleSyncM365Roadmap(db, args) in the process of slot
\* i, up to its await: params.force is read before the try block (a
\* TypeError when args is undefined rejects the promise); a falsy force on a
\* status with hoursSinceSync < 1 returns the skip response; otherwise
\* performSync(db) is called, without a second argument
HandleSyncM365Roadmap(i, args) ==
  LET status == getSyncStatus(cp, now)
  IN /\ CanRun(InvProc(i))
     /\ FreeSlot(i)
     /\ IF args = Undefined
        THEN /\ ret' = ToolEnds(i, args, "rejected",
                      "Cannot read properties of undefined (reading 'force')")
             /\ UNCHANGED <<db, tx, sync_checkpoint, apiCache, cachedETag, inv, now, snap,
                            orphan, syncs, rd>>
        ELSE IF ~Truthy(args.force) /\ status.hoursSinceSyncTenths < 10
        THEN /\ ret' = ToolEnds(i, args, "response",
                      createSuccessResponse(
                        [ message |-> "Data is fresh, sync skipped",
                          lastSync |-> status.lastSync,
                          recordCount |-> status.recordCount,
                          hoursSinceSyncTenths |-> status.hoursSinceSyncTenths,
                          hint |-> "Use force=true to sync anyway" ]))
             /\ UNCHANGED <<db, tx, sync_checkpoint, apiCache, cachedETag, inv, now, snap,
                            orphan, syncs, rd>>
        ELSE PerformSync(i, FALSE, TRUE)

\* ------------------------------------------------------------------ strings
\* the characters the modelled texts are made of, in code-unit order
CodeUnits == " !()*-0123456789ABCDEFGHIJKLMNOPQRSTUVWXYZ_abcdefghijklmnopqrstuvwxyz"
UpperCase == "ABCDEFGHIJKLMNOPQRSTUVWXYZ"
LowerCase == "abcdefghijklmnopqrstuvwxyz"
DecimalDigits == "0123456789"

CharAt(str, k) == SubSeq(str, k, k)
Occurs(c, str) == \E k \in 1..Len(str) : CharAt(str, k) = c
IndexIn(c, str) == CHOOSE k \in 1..Len(str) : CharAt(str, k) = c

\* \d of a JavaScript regular expression
IsDigit(c) == Occurs(c, DecimalDigits)
\* [A-Za-z0-9]
IsAlnum(c) == IsDigit(c) \/ Occurs(c, UpperCase) \/ Occurs(c, LowerCase)
\* \s of a JavaScript regular expression (the modelled texts hold no other
\* white space than the space)
IsSpace(c) == c = " "

RECURSIVE TrimStart(_)
TrimStart(str) ==
  IF Len(str) = 0 THEN str
  ELSE IF IsSpace(CharAt(str, 1)) THEN TrimStart(SubSeq(str, 2, Len(str))) ELSE str

RECURSIVE TrimEnd(_)
TrimEnd(str) ==
  IF Len(str) = 0 THEN str
  ELSE IF IsSpace(CharAt(str, Len(str))) THEN TrimEnd(SubSeq(str, 1, Len(str) - 1))
       ELSE str

\* String.prototype.trim
Trim(str) == TrimEnd(TrimStart(str))

RECURSIVE SplitFrom(_, _, _, _)
\* the pieces of str between separator runs: scan from position k with the
\* piece cur being built; alnumOnly: every character that is not alphanumeric
\* separates, otherwise only white space does; no empty piece is produced
SplitFrom(str, k, cur, alnumOnly) ==
  IF k > Len(str)
  THEN IF cur = "" THEN <<>> ELSE <<cur>>
  ELSE LET c == CharAt(str, k)
           sep == IF alnumOnly THEN ~IsAlnum(c) ELSE IsSpace(c)
       IN IF sep
          THEN (IF cur = "" THEN <<>> ELSE <<cur>>) \o SplitFrom(str, k + 1, "", alnumOnly)
          ELSE SplitFrom(str, k + 1, cur \o c, alnumOnly)

\* str.split(/\s+/) of a trimmed, non-empty string
SplitWhitespace(str) == SplitFrom(str, 1, "", FALSE)

RECURSIVE Join(_, _)
\* Array.prototype.join
Join(parts, sep) ==
  IF parts = <<>> THEN ""
  ELSE IF Len(parts) = 1 THEN parts[1]
  ELSE parts[1] \o sep \o Join(Tail(parts), sep)

RECURSIVE ToLower(_)
\* case folding of the full-text tokenizer
ToLower(str) ==
  IF Len(str) = 0 THEN str
  ELSE LET c == CharAt(str, 1)
       IN (IF Occurs(c, UpperCase) THEN CharAt(LowerCase, IndexIn(c, UpperCase)) ELSE c)
            \o ToLower(SubSeq(str, 2, Len(str)))

RECURSIVE StrLess(_, _)
\* a < b on strings: comparison by code units, as JavaScript's relational
\* operators and SQLite's BINARY collation do
StrLess(a, b) ==
  IF Len(b) = 0 THEN FALSE
  ELSE IF Len(a) = 0 THEN TRUE
  ELSE LET x == IndexIn(CharAt(a, 1), CodeUnits)
           y == IndexIn(CharAt(b, 1), CodeUnits)
       IN IF x # y THEN x < y
          ELSE StrLess(SubSeq(a, 2, Len(a)), SubSeq(b, 2, Len(b)))

StrLeq(a, b) == a = b \/ StrLess(a, b)

IsPrefix(a, b) == Len(a) <= Len(b) /\ SubSeq(b, 1, Len(a)) = a

\* ---------------------------------------------------- search_m365_roadmap
JsArray(items) == [t |-> "array", v |-> items]
\* the number n + 0.5
JsHalf(n) == [t |-> "number", v |-> n, plusHalf |-> TRUE]

\* an arguments object of search_m365_roadmap (Undefined: no such property)
SearchArgs(query, products, platforms, status, dateFrom, dateTo, limit, offset) ==
  [ t |-> "object", query |-> query, products |-> products,
    platforms |-> platforms, status |-> status, dateFrom |-> dateFrom,
    dateTo |-> dateTo, limit |-> limit, offset |-> offset ]

\* searchM365Roadmap.ts handleSearchM365Roadmap: (args ?? {})
EmptySearchArgs ==
  SearchArgs(Undefined, Undefined, Undefined, Undefined, Undefined, Undefined,
             Undefined, Undefined)

\* searchM365Roadmap.ts normalizeOptionalString
normalizeOptionalString(value) ==
  IF value.t # "string" THEN Undefined
  ELSE IF Len(Trim(value.v)) > 0 THEN JsString(Trim(value.v)) ELSE Undefined

\* searchM365Roadmap.ts normalizeOptionalStringArray (the modelled arrays
\* hold strings only)
normalizeOptionalStringArray(value) ==
  IF value.t # "array" THEN Undefined
  ELSE LET trimmed == [k \in 1..Len(value.v) |-> Trim(value.v[k])]
           normalized == SelectSeq(trimmed, LAMBDA item : Len(item) > 0)
       IN IF Len(normalized) > 0 THEN JsArray(normalized) ELSE Undefined

\* a month test that lets the months 00 and 13..19 through
isValidYearMonth_AnyMonth(value) ==
  /\ Len(value) = 7
  /\ \A k \in {1, 2, 3, 4, 7} : IsDigit(CharAt(value, k))
  /\ CharAt(value, 5) = "-"
  /\ CharAt(value, 6) \in {"0", "1"}

\* searchM365Roadmap.ts isValidYearMonth: /^\d{4}-(0[1-9]|1[0-2])$/
isValidYearMonth(value) ==
  /\ Len(value) = 7
  /\ \A k \in 1..4 : IsDigit(CharAt(value, k))
  /\ CharAt(value, 5) = "-"
  /\ \/ CharAt(value, 6) = "0" /\ Occurs(CharAt(value, 7), "123456789")
     \/ CharAt(value, 6) = "1" /\ Occurs(CharAt(value, 7), "012")

\* Number.isInteger
IsInteger(value) == value.t = "number" /\ "plusHalf" \notin DOMAIN value

\* searchM365Roadmap.ts handleSearchM365Roadmap, lines 145-181: the message
\* of the validation error, or Null when the request passes
SearchValidationError(params) ==
  LET dateFrom == normalizeOptionalString(params.dateFrom)
      dateTo == normalizeOptionalString(params.dateTo)
  IN IF params.limit # Undefined
        /\ (~IsInteger(params.limit) \/ params.limit.v < 1 \/ params.limit.v > MAX_LIMIT)
     THEN "Invalid parameter: limit (must be an integer between 1 and 10000)"
     ELSE IF params.offset # Undefined
             /\ (~IsInteger(params.offset) \/ params.offset.v < 0)
     THEN "Invalid parameter: offset (must be a non-negative integer)"
     ELSE IF dateFrom # Undefined /\ ~isValidYearMonth(dateFrom.v)
     THEN "Invalid parameter: dateFrom (must be YYYY-MM format)"
     ELSE IF dateTo # Undefined /\ ~isValidYearMonth(dateTo.v)
     THEN "Invalid parameter: dateTo (must be YYYY-MM format)"
     ELSE IF dateFrom # Undefined /\ dateTo # Undefined /\ StrLess(dateTo.v, dateFrom.v)
     THEN "Invalid parameters: dateFrom must be earlier than or equal to dateTo"
     ELSE Null

\* the local calendar of a clock value: months of thirty days
MONTH == 30 * 24 * HOUR
getFullYear(clock) == 1970 + ((clock \div MONTH) \div 12)
getMonth(clock) == (clock \div MONTH) % 12

\* a Date constructor that keeps the month index it is given
DateOf_NoWrap(year, monthIndex) == [year |-> year, month |-> monthIndex]

\* new Date(year, monthIndex, 1): a month index outside 0..11 carries into
\* the year
DateOf(year, monthIndex) ==
  [year |-> year + (monthIndex \div 12), month |-> monthIndex % 12]

\* String(n).padStart(2, "0")
padStart2(str) == IF Len(str) < 2 THEN "0" \o str ELSE str

\* `${d.getFullYear()}-${String(d.getMonth() + 1).padStart(2, "0")}`
YearMonth(d) == ToString(d.year) \o "-" \o padStart2(ToString(d.month + 1))

\* searchM365Roadmap.ts handleSearchM365Roadmap, lines 183-227: the filters
\* handed to searchFeatures
SearchFilters(params, clock) ==
  LET query == normalizeOptionalString(params.query)
      products == normalizeOptionalStringArray(params.products)
      platforms == normalizeOptionalStringArray(params.platforms)
      status == normalizeOptionalString(params.status)
      dateFrom == normalizeOptionalString(params.dateFrom)
      dateTo == normalizeOptionalString(params.dateTo)
      keyHighlights == /\ dateFrom = Undefined /\ dateTo = Undefined
                       /\ query = Undefined /\ products = Undefined
                       /\ platforms = Undefined /\ status = Undefined
      today == [year |-> getFullYear(clock), month |-> getMonth(clock)]
      oneMonthAgo == DateOf(today.year, today.month - 1)
  IN [ query |-> query, products |-> products, platforms |-> platforms,
       status |-> status,
       dateFrom |-> IF keyHighlights THEN JsString(YearMonth(oneMonthAgo)) ELSE dateFrom,
       dateTo |-> IF keyHighlights THEN JsString(YearMonth(today)) ELSE dateTo,
       limit |-> IF params.limit = Undefined THEN MAX_LIMIT ELSE params.limit.v,
       offset |-> IF params.offset = Undefined THEN 0 ELSE params.offset.v ]

\* queries.ts searchFeatures, lines 555-561: the MATCH argument built from
\* the text query, or Null when the query is absent or blank
FtsQuery(query) ==
  IF query = Undefined \/ Len(Trim(query.v)) = 0 THEN Null
  ELSE LET words == SplitWhitespace(Trim(query.v))
       IN Join([k \in 1..Len(words) |-> words[k] \o "*"], " ")

\* the term t of a MATCH argument without its prefix star
Bareword(term) == SubSeq(term, 1, Len(term) - 1)

\* FTS5 query syntax: an unquoted term is a bareword (letters, digits,
\* underscore) followed by the prefix star; any other character outside
\* quotes is a syntax error, which the MATCH statement throws
Fts5SyntaxError(match) ==
  \E term \in RangeOf(SplitWhitespace(match)) :
    \/ CharAt(term, Len(term)) # "*"
    \/ Len(term) = 1
    \/ \E k \in 1..(Len(term) - 1) :
         ~(IsAlnum(CharAt(term, k)) \/ CharAt(term, k) = "_")

\* the words the FTS5 tokenizer (unicode61) indexes for an entry: the
\* alphanumeric runs of title and description, case folded
IndexedWords(row) ==
  RangeOf(SplitFrom(ToLower(row.title), 1, "", TRUE))
    \cup (IF row.description = Null THEN {}
          ELSE RangeOf(SplitFrom(ToLower(row.description), 1, "", TRUE)))

\* m365_features_fts MATCH ?: every term is a prefix of an indexed word
Fts5Matches(row, match) ==
  \A term \in RangeOf(SplitWhitespace(match)) :
    LET pieces == RangeOf(SplitFrom(ToLower(Bareword(term)), 1, "", TRUE))
    IN /\ pieces # {}
       /\ \A piece \in pieces : \E word \in IndexedWords(row) : IsPrefix(piece, word)

\* queries.ts searchFeatures, lines 513-550 and the MATCH join: the
\* identifiers of the rows the WHERE clause selects
MatchingIds(t, filters) ==
  LET match == FtsQuery(filters.query)
  IN { id \in StoredIds(t) :
         LET row == t.features[id]
             ga == row.generalAvailabilityDate
         IN /\ match # Null
                 => \E k \in 1..Len(t.fts[id]) : Fts5Matches(t.fts[id][k], match)
            /\ filters.status # Undefined => row.status = filters.status.v
            /\ filters.dateFrom # Undefined
                 => (ga # Null /\ StrLeq(filters.dateFrom.v, ga))
            /\ filters.dateTo # Undefined
                 => (ga # Null /\ StrLeq(ga, filters.dateTo.v))
            /\ filters.products # Undefined
                 => RangeOf(t.products[id]) \cap RangeOf(filters.products.v) # {}
            /\ filters.platforms # Undefined
                 => RangeOf(t.platforms[id]) \cap RangeOf(filters.platforms.v) # {} }

\* the place of the row id in the order in which the statement visits rows
ScanPosition(t, id) == CHOOSE k \in DOMAIN t.scan : t.scan[k] = id

\* a sort in which rows of equal modified come in any order, not the same
\* one for every execution
RowOrders_AnyTieOrder(t, ids) ==
  { order \in [1..Cardinality(ids) -> ids] :
      /\ \A a, b \in 1..Cardinality(ids) : a # b => order[a] # order[b]
      /\ \A a, b \in 1..Cardinality(ids) :
           a < b => t.features[order[a]].modified >= t.features[order[b]].modified }

\* ORDER BY f.modified DESC LIMIT ? OFFSET ?: the orders in which the rows
\* ids may come. The statement names no second sort key; SQLite sorts a
\* statement with LIMIT by the key followed by the sequence number of the
\* row in the scan, so rows of equal modified come in the order in which the
\* statement visits them, whatever LIMIT and OFFSET are bound
RowOrders(t, ids) ==
  { order \in [1..Cardinality(ids) -> ids] :
      /\ \A a, b \in 1..Cardinality(ids) : a # b => order[a] # order[b]
      /\ \A a, b \in 1..Cardinality(ids) :
           a < b =>
             \/ t.features[order[a]].modified > t.features[order[b]].modified
             \/ /\ t.features[order[a]].modified = t.features[order[b]].modified
                /\ ScanPosition(t, order[a]) < ScanPosition(t, order[b]) }

\* LIMIT ? OFFSET ?
LimitOffset(order, limit, offset) ==
  IF offset >= Len(order) THEN <<>>
  ELSE SubSeq(order, offset + 1,
              IF offset + limit < Len(order) THEN offset + limit ELSE Len(order))

\* queries.ts searchFeatures, line 624: SELECT COUNT(*) with the same WHERE
\* clause and no LIMIT
CountMatching(t, filters) == Cardinality(MatchingIds(t, filters))

\* a summary that is never cut
descriptionSummary_Whole(description) ==
  IF description = Null \/ description = "" THEN Null ELSE description

\* queries.ts searchFeatures, lines 635-640: null for a description that is
\* null or empty, the first 200 characters and "..." for a longer one
descriptionSummary(description) ==
  IF description = Null \/ description = "" THEN Null
  ELSE IF Len(description) > SummaryLength
       THEN SubSeq(description, 1, SummaryLength) \o "..."
       ELSE description

\* queries.ts searchFeatures on store t with the matching rows coming in
\* order: the page of result items and the total count
searchFeaturesWith(t, filters, order) ==
  LET rows == LimitOffset(order, filters.limit, filters.offset)
  IN [ results |->
         [ k \in 1..Len(rows) |->
             LET row == t.features[rows[k]]
             IN [ id |-> rows[k], title |-> row.title,
                  description |-> descriptionSummary(row.description),
                  status |-> row.status,
                  products |-> t.products[rows[k]],
                  platforms |-> t.platforms[rows[k]],
                  generalAvailabilityDate |-> row.generalAvailabilityDate,
                  previewAvailabilityDate |-> row.previewAvailabilityDate,
                  modified |-> row.modified ] ],
       totalCount |-> CountMatching(t, filters) ]

\* hasMore that forgets the offset
HasMore_IgnoresOffset(offset, returned, totalCount) == returned < totalCount

\* searchM365Roadmap.ts handleSearchM365Roadmap, line 243
HasMore(offset, returned, totalCount) == offset + returned < totalCount

\* searchM365Roadmap.ts handleSearchM365Roadmap, lines 234-248
SearchResponse(result, offset) ==
  createSuccessResponse(
    [ results |-> [ k \in 1..Len(result.results) |->
                      [ item |-> result.results[k],
                        roadmapUrl |-> "https://www.microsoft.com/ja-jp/microsoft-365/roadmap?filters=&searchterms="
                                         \o ToString(result.results[k].id) ] ],
      totalCount |-> result.totalCount,
      hasMore |-> HasMore(offset, Len(result.results), result.totalCount) ])

\* what a search_m365_roadmap call returned: outcome "validation" (no store
\* query ran), "results", or "failed" (the store query threw); filters and
\* match are what searchFeatures was given and the MATCH argument it issued
SearchEnds(args, outcome, filters, match, value) ==
  [op |-> "search_m365_roadmap", args |-> args, outcome |-> outcome,
   filters |-> filters, match |-> match, value |-> value]

\* searchM365Roadmap.ts handleSearchM365Roadmap(db, args) on store t at
\* time clock: validation first, then searchFeatures; the values the call
\* may return
SearchOutcomes(t, clock, args) ==
  LET params == IF args = Undefined THEN EmptySearchArgs ELSE args
      error == SearchValidationError(params)
      filters == SearchFilters(params, clock)
      match == FtsQuery(filters.query)
  IN IF error # Null
     THEN { SearchEnds(args, "validation", Null, Null, createErrorResponse(error)) }
     ELSE IF match # Null /\ Fts5SyntaxError(match)
     THEN { SearchEnds(args, "failed", filters, match,
                       createErrorResponse("Search failed: fts5: syntax error")) }
     ELSE { SearchEnds(args, "results", filters, match,
                       SearchResponse(searchFeaturesWith(t, filters, order),
                                      filters.offset)) :
              order \in RowOrders(t, MatchingIds(t, filters)) }

\* searchM365Roadmap.ts handleSearchM365Roadmap(db, args) on the connection
\* of process p: synchronous
HandleSearchM365Roadmap(p, args) ==
  /\ CanRun(p)
  /\ rd = NoRead
  /\ ret' \in SearchOutcomes(ReadView(db, tx), now, args)
  /\ UNCHANGED <<db, tx, sync_checkpoint, apiCache, cachedETag, inv, now, snap, orphan, syncs, rd>>

\* -------------------------------------------------------------------- specs
\* the sync coordinator, the fetcher and the store, with process restarts
Next ==
  \/ \E i \in Inv, force \in BOOLEAN, readOk \in BOOLEAN : PerformSync(i, force, readOk) /\ UNCHANGED main
  \/ \E i \in Inv, msg \in FetchErrors : FetchFails(i, msg) /\ UNCHANGED main
  \/ \E i \in Inv : SleepDone(i) /\ UNCHANGED main
  \/ \E i \in Inv : FetchNotModified(i) /\ UNCHANGED main
  \/ \E i \in Inv : FetchBadBody(i) /\ UNCHANGED main
  \/ \E i \in Inv, fs \in Payloads, e \in Tokens \cup {NoETag}, diffOk \in BOOLEAN :
        FetchOk(i, fs, e, diffOk) /\ UNCHANGED main
  \/ \E i \in Inv : TxStep(i) /\ UNCHANGED main
  \/ \E i \in Inv : TxStorageError(i) /\ UNCHANGED main
  \/ \E i \in Inv : TxCommit(i) /\ UNCHANGED main
  \/ \E i \in Inv, ok \in BOOLEAN : Finalize(i, ok) /\ UNCHANGED main
  \/ \E i \in Inv : CatchError(i) /\ UNCHANGED main
  \/ \E p \in Procs : Restart(p) /\ UNCHANGED main

Spec == Init /\ [][Next]_vars

\* Spec plus the storage faults that hit the statements outside the try block
NextFaults ==
  \/ Next
  \/ \E i \in Inv : StartSyncThrows(i) /\ UNCHANGED main
  \/ \E i \in Inv : CatchErrorThrows(i) /\ UNCHANGED main

SpecFaults == Init /\ [][NextFaults]_vars

\* the query tools served from the store while syncs run against it (the
\* syncs meet no network failure and no storage fault outside the write)
NextReads ==
  \/ \E i \in Inv, force \in BOOLEAN : PerformSync(i, force, TRUE) /\ UNCHANGED main
  \/ \E i \in Inv : FetchNotModified(i) /\ UNCHANGED main
  \/ \E i \in Inv, fs \in Payloads, e \in Tokens \cup {NoETag} : FetchOk(i, fs, e, TRUE) /\ UNCHANGED main
  \/ \E i \in Inv : TxStep(i) /\ UNCHANGED main
  \/ \E i \in Inv : TxStorageError(i) /\ UNCHANGED main
  \/ \E i \in Inv : TxCommit(i) /\ UNCHANGED main
  \/ \E i \in Inv : Finalize(i, TRUE) /\ UNCHANGED main
  \/ \E i \in Inv : CatchError(i) /\ UNCHANGED main
  \/ \E p \in Procs, id \in Ids : GetByIdRow(p, id) /\ UNCHANGED main
  \/ \E p \in Procs : GetByIdTags(p) /\ UNCHANGED main
  \/ \E p \in Procs : SearchRows(p) /\ UNCHANGED main
  \/ \E p \in Procs : SearchTags(p) /\ UNCHANGED main

SpecReads == Init /\ [][NextReads]_vars

\* the sync tool as the only caller of performSync (the syncs meet no
\* network failure and no storage fault outside the write)
NextSyncTool ==
  \/ \E i \in Inv, args \in SyncArgsValues : HandleSyncM365Roadmap(i, args) /\ UNCHANGED main
  \/ \E i \in Inv : FetchNotModified(i) /\ UNCHANGED main
  \/ \E i \in Inv, fs \in Payloads, e \in Tokens \cup {NoETag} : FetchOk(i, fs, e, TRUE) /\ UNCHANGED main
  \/ \E i \in Inv : TxStep(i) /\ UNCHANGED main
  \/ \E i \in Inv : TxStorageError(i) /\ UNCHANGED main
  \/ \E i \in Inv : TxCommit(i) /\ UNCHANGED main
  \/ \E i \in Inv : Finalize(i, TRUE) /\ UNCHANGED main
  \/ \E i \in Inv : CatchError(i) /\ UNCHANGED main

SpecSyncTool == Init /\ [][NextSyncTool]_vars

\* the arrays a sync can have written: the payloads without a repeated tag
WrittenPayloads ==
  { fs \in Payloads : \A k \in 1..Len(fs) : ~HasDuplicate(fs[k].products) }

\* the first day of month (1..12) of year on the clock
ClockAt(year, month) == ((year - 1970) * 12 + (month - 1)) * MONTH

\* the months in which the search tool is called: a January, the month
\* after it, and a month half a year later
SearchClocks == { ClockAt(2026, 1), ClockAt(2026, 2), ClockAt(2026, 7) }

\* the values tried for each argument of search_m365_roadmap
QueryValues ==
  { Undefined, JsString("Teams"), JsString("co"), JsString("Teams Copilot"),
    JsString("   "), JsString("Teams (Preview)!"), JsString("(((***)))"),
    JsString("--- ___ -_-") }
ProductsValues == { Undefined, JsArray(<<>>), JsArray(<<"A", " C ">>) }
PlatformsValues == { Undefined, JsArray(<<"Web">>) }
StatusValues == { Undefined, JsString("Launched") }
DateFromValues ==
  { Undefined, JsString("2025-12"), JsString("2026-02"), JsString("2026-13"),
    JsString(" 2026-01 "), JsString(""), JsNumber(202601) }
DateToValues ==
  { Undefined, JsString("2026-01"), JsString("2026-1"), JsString("26-01-01") }
LimitValues ==
  { Undefined, JsNumber(0), JsNumber(1), JsNumber(2), JsNumber(MAX_LIMIT),
    JsNumber(MAX_LIMIT + 1), JsHalf(1), JsString("5") }
OffsetValues ==
  { Undefined, JsNumber(0 - 1), JsNumber(0), JsNumber(1), JsNumber(2), JsHalf(0) }

\* the requests tried: no arguments object, every combination of limit,
\* offset and date bounds without other filter, and every combination of the
\* filter dimensions with a small page
SearchArgsValues ==
  { Undefined }
    \cup { SearchArgs(Undefined, Undefined, Undefined, Undefined, df, dt, l, o) :
             df \in DateFromValues, dt \in DateToValues,
             l \in LimitValues, o \in OffsetValues }
    \cup { SearchArgs(q, pr, pl, st, df, dt, l, o) :
             q \in QueryValues, pr \in ProductsValues, pl \in PlatformsValues,
             st \in StatusValues, df \in {Undefined, JsString("2025-12")},
             dt \in {Undefined, JsString("2026-01")},
             l \in {Undefined, JsNumber(1)}, o \in {Undefined, JsNumber(1)} }

\* a store as a sync left it, in one of the months
InitSearch ==
  /\ \E fs \in WrittenPayloads :
       /\ db = SyncAll(EmptyTables, fs)
       /\ sync_checkpoint = CheckpointTable(
            IF fs = <<>> THEN InitialCheckpoint
            ELSE completeSyncSuccess(InitialCheckpoint, LatestModified(fs, EPOCH),
                                     Len(fs), 0))
  /\ now \in SearchClocks
  /\ tx = NoTx
  /\ apiCache = [exists |-> FALSE, etag |-> NoETag]
  /\ cachedETag = [p \in Procs |-> NoETag]
  /\ inv = [i \in Inv |-> IdleInv]
  /\ ret = NoResult
  /\ snap = NoSnap
  /\ orphan = NoOrphan
  /\ rd = NoRead
  /\ syncs = 0
  /\ main = [p \in Procs |-> "running"]

\* server.ts CallTool handler: the value the tool handler returned is sent
\* to the client as the response of the request
ResponseSent ==
  /\ ret # NoResult
  /\ ret' = NoResult
  /\ UNCHANGED <<db, tx, sync_checkpoint, apiCache, cachedETag, inv, now, snap, orphan, syncs, rd>>

\* server.ts CallTool handler, case "search_m365_roadmap": the next request
\* of the client is handled (in the server process, 1)
SearchRequest(args) ==
  /\ ret = NoResult
  /\ HandleSearchM365Roadmap(1, args)

\* the search tool served from a store no sync is writing to, one request
\* after the other
NextSearch ==
  \/ \E args \in SearchArgsValues : SearchRequest(args) /\ UNCHANGED main
  \/ ResponseSent /\ UNCHANGED main

SpecSearch == InitSearch /\ [][NextSearch]_vars

\* ------------------------------------------------ the write functions alone
\* a plain INSERT, which fails on a stored identifier
UpsertThrows_PlainInsert(t, f) == t.features[f.id] # NoRow

\* queries.ts upsertFeature: INSERT ... ON CONFLICT(id) DO UPDATE meets no
\* constraint on a record of the declared type
UpsertThrows(t, f) == FALSE

\* schema.sql FOREIGN KEY (feature_id) REFERENCES m365_features(id), with
\* PRAGMA foreign_keys = ON: a row for a feature that is not stored
ForeignKeyViolation(t, id, rows) == rows # <<>> /\ t.features[id] = NoRow

\* queries.ts replaceFeatureProducts / Platforms / CloudInstances /
\* ReleaseRings: an INSERT of the loop throws
ReplaceTagsThrows(t, id, tags) == ForeignKeyViolation(t, id, tags) \/ HasDuplicate(tags)

RECURSIVE InsertedBeforeThrow(_, _)
\* the rows the loop inserted before the INSERT of a repeated tag threw
InsertedBeforeThrow(done, tags) ==
  IF tags = <<>> \/ Head(tags) \in RangeOf(done) THEN done
  ELSE InsertedBeforeThrow(Append(done, Head(tags)), Tail(tags))

\* queries.ts replaceFeatureProducts / Platforms / CloudInstances /
\* ReleaseRings called outside a transaction: every statement commits as it
\* runs, so a loop that throws leaves the DELETE and the rows before the throw
replaceFeatureTagsCall(t, kind, id, tags) ==
  IF ForeignKeyViolation(t, id, tags) THEN [t EXCEPT ![kind][id] = <<>>]
  ELSE IF HasDuplicate(tags)
       THEN [t EXCEPT ![kind][id] = InsertedBeforeThrow(<<>>, tags)]
       ELSE replaceFeatureTags(t, kind, id, tags)

\* the records the write functions are called with: two versions of every
\* feature, which differ in every scalar field
StoreRecords ==
  { M365RoadmapFeature(id, 1, FALSE) : id \in Ids }
    \cup { [M365RoadmapFeature(id, 2, FALSE) EXCEPT !.created = 2] : id \in Ids }

\* the tag lists the replacements are called with
TagLists == { <<>>, <<"A", "B">>, <<"C">>, <<"A", "A">> }

\* the replacements called: products of every feature with every list, the
\* other kinds of feature 1 with no tag or one
ReplaceCalls ==
  { <<"products", id, tags>> : id \in Ids, tags \in TagLists }
    \cup { <<kind, 1, tags>> : kind \in TagKinds \ {"products"},
                              tags \in { <<>>, <<"C">> } }

\* the availability lists replaceFeatureAvailabilities is called with
AvailabilityLists ==
  { <<>>,
    << [ring |-> "GA", year |-> 2026, month |-> "January"],
       [ring |-> "GA", year |-> 2026, month |-> "January"] >> }

\* upsertFeature(db, f) called on the store
UpsertFeature(f) ==
  LET threw == UpsertThrows(db, f)
  IN /\ tx = NoTx
     /\ db' = IF threw THEN db ELSE upsertFeature(db, f)
     /\ ret' = [op |-> "upsertFeature", feature |-> f, threw |-> threw,
                old |-> db.features[f.id]]
     /\ UNCHANGED <<tx, sync_checkpoint, apiCache, cachedETag, inv, now, snap, orphan, syncs, rd>>

\* replaceFeatureProducts / Platforms / CloudInstances / ReleaseRings
\* (db, id, tags) called on the store
ReplaceAssociations(kind, id, tags) ==
  /\ tx = NoTx
  /\ db' = replaceFeatureTagsCall(db, kind, id, tags)
  /\ ret' = [op |-> "replaceAssociations", kind |-> kind, id |-> id, tags |-> tags,
             threw |-> ReplaceTagsThrows(db, id, tags), old |-> db[kind][id]]
  /\ UNCHANGED <<tx, sync_checkpoint, apiCache, cachedETag, inv, now, snap, orphan, syncs, rd>>

\* replaceFeatureAvailabilities(db, id, avs) called on the store
ReplaceAvailabilities(id, avs) ==
  LET threw == ForeignKeyViolation(db, id, avs)
  IN /\ tx = NoTx
     /\ db' = replaceFeatureAvailabilities(db, id, IF threw THEN <<>> ELSE avs)
     /\ ret' = [op |-> "replaceAvailabilities", id |-> id, avs |-> avs,
                threw |-> threw, old |-> db.availabilities[id]]
     /\ UNCHANGED <<tx, sync_checkpoint, apiCache, cachedETag, inv, now, snap, orphan, syncs, rd>>

\* the write functions of queries.ts called one after the other on a store
\* created from the schema
NextStore ==
  \/ \E f \in StoreRecords : UpsertFeature(f) /\ UNCHANGED main
  \/ \E call \in ReplaceCalls : ReplaceAssociations(call[1], call[2], call[3]) /\ UNCHANGED main
  \/ \E avs \in AvailabilityLists : ReplaceAvailabilities(1, avs) /\ UNCHANGED main

SpecStore == Init /\ [][NextStore]_vars

\* ------------------------------------------------- descriptions of any length
RECURSIVE Repeat(_, _)
\* n copies of str
Repeat(str, n) == IF n = 0 THEN "" ELSE str \o Repeat(str, n - 1)

\* the descriptions stored: none, empty, short, of 199, 200, 201 and 250
\* characters
DescriptionValues ==
  { Null, "", "d1",
    Repeat("0123456789", 19) \o "012345678",
    Repeat("0123456789", 20),
    Repeat("0123456789", 20) \o "0",
    Repeat("0123456789", 25) }

\* a store in which a sync has written both features, with descriptions of
\* any of the lengths, read in the month of their GA date
InitSummary ==
  /\ \E d1, d2 \in DescriptionValues :
       db = SyncAll(EmptyTables,
                    << [M365RoadmapFeature(1, 1, FALSE) EXCEPT !.description = d1],
                       [M365RoadmapFeature(2, 1, FALSE) EXCEPT !.description = d2] >>)
  /\ sync_checkpoint = CheckpointTable(completeSyncSuccess(InitialCheckpoint, 1, 2, 0))
  /\ now = ClockAt(2026, 1)
  /\ tx = NoTx
  /\ apiCache = [exists |-> FALSE, etag |-> NoETag]
  /\ cachedETag = [p \in Procs |-> NoETag]
  /\ inv = [i \in Inv |-> IdleInv]
  /\ ret = NoResult
  /\ snap = NoSnap
  /\ orphan = NoOrphan
  /\ rd = NoRead
  /\ syncs = 0
  /\ main = [p \in Procs |-> "running"]

\* the search requests tried: no arguments, and pages of one result
SummaryArgsValues ==
  { Undefined }
    \cup { SearchArgs(Undefined, Undefined, Undefined, Undefined, Undefined, Undefined,
                      JsNumber(1), o) : o \in {Undefined, JsNumber(1)} }

\* the two query tools of the server process on such a store
NextSummary ==
  \/ \E args \in SummaryArgsValues : SearchRequest(args) /\ UNCHANGED main
  \/ \E id \in Ids : GetByIdRow(1, id) /\ UNCHANGED main
  \/ GetByIdTags(1) /\ UNCHANGED main
  \/ ResponseSent /\ UNCHANGED main

SpecSummary == InitSummary /\ [][NextSummary]_vars

\* --------------------------------------------------- syncs of one process
\* the server process, 1, as the only caller of performSync, forced or not
\* (the syncs meet no network failure and no storage fault outside the write)
NextRetry ==
  \/ \E i \in Inv, force \in BOOLEAN :
        InvProc(i) = 1 /\ PerformSync(i, force, TRUE) /\ UNCHANGED main
  \/ \E i \in Inv : FetchNotModified(i) /\ UNCHANGED main
  \/ \E i \in Inv, fs \in Payloads, e \in Tokens \cup {NoETag} : FetchOk(i, fs, e, TRUE) /\ UNCHANGED main
  \/ \E i \in Inv : TxStep(i) /\ UNCHANGED main
  \/ \E i \in Inv : TxStorageError(i) /\ UNCHANGED main
  \/ \E i \in Inv : TxCommit(i) /\ UNCHANGED main
  \/ \E i \in Inv : Finalize(i, TRUE) /\ UNCHANGED main
  \/ \E i \in Inv : CatchError(i) /\ UNCHANGED main

SpecRetry == Init /\ [][NextRetry]_vars

\* ------------------------------------------------- a store with api_cache
\* database.ts copySeedDatabaseIfNeeded: the store file is a copy of a seed
\* file; the copy has the api_cache table, without a token, and was never
\* synced
InitTokens ==
  /\ db = EmptyTables
  /\ tx = NoTx
  /\ sync_checkpoint = CheckpointTable(InitialCheckpoint)
  /\ apiCache = [exists |-> TRUE, etag |-> NoETag]
  /\ cachedETag = [p \in Procs |-> NoETag]
  /\ inv = [i \in Inv |-> IdleInv]
  /\ now = Clock0
  /\ ret = NoResult
  /\ snap = NoSnap
  /\ orphan = NoOrphan
  /\ rd = NoRead
  /\ syncs = 0
  /\ main = [p \in Procs |-> "running"]

\* the sync coordinator on such a store
SpecTokens == InitTokens /\ [][Next]_vars

\* ------------------------------------------------------- a listing in pages
\* the orders in which a statement may visit the rows of m365_features
ScanOrders == { sc \in [Ids -> Ids] : \A a, b \in Ids : a # b => sc[a] # sc[b] }

\* the requests a listing repeats with growing offset: with and without a
\* text query, with and without a status filter
PageBases ==
  { SearchArgs(q, Undefined, Undefined, st, Undefined, Undefined, Undefined, Undefined) :
      q \in {Undefined, JsString("Teams"), JsString("Copilot")},
      st \in {Undefined, JsString("Launched")} }

\* the page sizes of a listing
PageLimits == {1, 2}

\* a store as a sync left it, its rows laid out in one of the scan orders
InitPages ==
  /\ \E fs \in WrittenPayloads, sc \in ScanOrders :
       /\ db = [SyncAll(EmptyTables, fs) EXCEPT !.scan = sc]
       /\ sync_checkpoint = CheckpointTable(
            IF fs = <<>> THEN InitialCheckpoint
            ELSE completeSyncSuccess(InitialCheckpoint, LatestModified(fs, EPOCH),
                                     Len(fs), 0))
  /\ now = ClockAt(2026, 1)
  /\ tx = NoTx
  /\ apiCache = [exists |-> FALSE, etag |-> NoETag]
  /\ cachedETag = [p \in Procs |-> NoETag]
  /\ inv = [i \in Inv |-> IdleInv]
  /\ ret = NoResult
  /\ snap = NoSnap
  /\ orphan = NoOrphan
  /\ rd = NoRead
  /\ syncs = 0
  /\ main = [p \in Procs |-> "running"]

\* the rows of one response: identifier and modified of every result item
PageRows(data) ==
  [ k \in 1..Len(data.results) |->
      [id |-> data.results[k].item.id, modified |-> data.results[k].item.modified] ]

\* a client lists the matches of base in pages of limit rows: its first
\* request has offset 0, every further one (while hasMore) the offset of the
\* previous one plus limit; each request is one search_m365_roadmap call in
\* the server process, 1
PageRequest(base, limit) ==
  LET first == ret = NoResult
      offset == IF first THEN 0 ELSE Len(ret.pages) * limit
      args == [base EXCEPT !.limit = JsNumber(limit), !.offset = JsNumber(offset)]
  IN /\ \/ first
        \/ ret.op = "pages" /\ ret.base = base /\ ret.limit = limit /\ ret.hasMore
     /\ CanRun(1)
     /\ rd = NoRead
     /\ \E r \in SearchOutcomes(ReadView(db, tx), now, args) :
          /\ r.outcome = "results"
          /\ ret' = [ op |-> "pages", base |-> base, limit |-> limit,
                      filters |-> r.filters,
                      pages |-> (IF first THEN <<>> ELSE ret.pages)
                                  \o << PageRows(r.value.data) >>,
                      hasMore |-> r.value.data.hasMore ]
     /\ UNCHANGED <<db, tx, sync_checkpoint, apiCache, cachedETag, inv, now, snap,
                    orphan, syncs, rd, main>>

\* the search tool asked for page after page of one listing, on a store no
\* sync is writing to
NextPages ==
  \/ \E base \in PageBases, limit \in PageLimits : PageRequest(base, limit)
  \/ ResponseSent /\ UNCHANGED main

SpecPages == InitPages /\ [][NextPages]_vars

\* ------------------------------------------------- the staleness test alone
\* isSyncNeeded with the hours since the last sync as its only test
isSyncNeeded_NoSentinel(table, clock, stalenessHours) ==
  LET checkpoint == getSyncCheckpoint(table)
  IN checkpoint = NoRow \/ clock - checkpoint.lastSync >= stalenessHours * HOUR

\* sync.service.ts isSyncNeeded: true without a checkpoint and for the epoch
\* watermark, otherwise (now - lastSync) / (1000 * 60 * 60) >= stalenessHours
isSyncNeeded(table, clock, stalenessHours) ==
  LET checkpoint == getSyncCheckpoint(table)
  IN IF checkpoint = NoRow \/ checkpoint.lastSync = EPOCH
     THEN TRUE
     ELSE clock - checkpoint.lastSync >= stalenessHours * HOUR

\* thresholds a caller passes
StaleHoursValues == {0, 1, 24}

\* watermarks of the checkpoint row: never synced, and syncs that ended at
\* these clock values
LastSyncValues == {EPOCH, 1, 2, Clock0}

\* wall clocks at the call: just under and just over one hour and 24 hours
\* after the watermarks
StalenessClocks ==
  {Clock0, HOUR + 2, 24 * HOUR, 24 * HOUR + 1, 24 * HOUR + 2}

\* the store file is either created from schema.sql or copied from a seed
\* file: the table holds the row the last writer left, or no row
CheckpointTables ==
  {<<>>} \cup
  { CheckpointTable([InitialCheckpoint EXCEPT !.lastSync = t, !.syncStatus = st]) :
      t \in LastSyncValues, st \in {"idle", "syncing"} }

InitStaleness ==
  /\ db = EmptyTables
  /\ tx = NoTx
  /\ sync_checkpoint \in CheckpointTables
  /\ apiCache = [exists |-> FALSE, etag |-> NoETag]
  /\ cachedETag = [p \in Procs |-> NoETag]
  /\ inv = [i \in Inv |-> IdleInv]
  /\ now \in StalenessClocks
  /\ ret = NoResult
  /\ snap = NoSnap
  /\ orphan = NoOrphan
  /\ rd = NoRead
  /\ syncs = 0
  /\ main = [p \in Procs |-> "running"]

\* one call of isSyncNeeded(db, stalenessHours)
IsSyncNeeded(stalenessHours) ==
  /\ ret' = [op |-> "isSyncNeeded", stalenessHours |-> stalenessHours,
             value |-> isSyncNeeded(sync_checkpoint, now, stalenessHours)]
  /\ UNCHANGED <<db, tx, sync_checkpoint, apiCache, cachedETag, inv, now, snap,
                 orphan, syncs, rd, main>>

NextStaleness ==
  \/ \E stalenessHours \in StaleHoursValues : IsSyncNeeded(stalenessHours)

SpecStaleness == InitStaleness /\ [][NextStaleness]_vars

\* ---------------------------------------------------------------- launch
\* whether r is a performSync call whose promise rejected
Rejected(r) == r.op = "performSync" /\ "rejected" \in DOMAIN r.result

\* a server whose process ends on a rejected startup sync
AfterBackgroundSync_Unhandled(rejected) == IF rejected THEN "exited" ELSE "running"

\* index.ts backgroundSync: what performSync rejects with is caught and
\* logged (and main attaches .catch to the promise of backgroundSync), so
\* the server keeps running however the startup sync ends
AfterBackgroundSync(rejected) == "running"

\* the end of the last sync before the launch, for a store that was synced
LaunchLastSync == Clock0

\* wall clocks at the launch: just under and at one hour and 24 hours
\* after the last sync
LaunchClocks ==
  { LaunchLastSync + HOUR - 1, LaunchLastSync + HOUR,
    LaunchLastSync + 24 * HOUR - 1, LaunchLastSync + 24 * HOUR }

\* the store file the launch finds: created from the schema and never synced,
\* or as a sync left it at LaunchLastSync
InitLaunch ==
  /\ \/ /\ db = EmptyTables
        /\ sync_checkpoint = CheckpointTable(InitialCheckpoint)
        /\ now = LaunchLastSync + HOUR - 1
     \/ /\ db = SyncAll(EmptyTables, << M365RoadmapFeature(1, 1, FALSE) >>)
        /\ sync_checkpoint = CheckpointTable(
             completeSyncSuccess(InitialCheckpoint, LaunchLastSync, 1, 0))
        /\ now \in LaunchClocks
  /\ tx = NoTx
  /\ apiCache = [exists |-> FALSE, etag |-> NoETag]
  /\ cachedETag = [p \in Procs |-> NoETag]
  /\ inv = [i \in Inv |-> IdleInv]
  /\ ret = NoResult
  /\ snap = NoSnap
  /\ orphan = NoOrphan
  /\ rd = NoRead
  /\ syncs = 0
  /\ main = [p \in Procs |-> "start"]

\* index.ts main: getDatabase() opens the store (ok = FALSE: it throws, main
\* rejects and the process exits with code 1)
GetDatabase(p, ok) ==
  /\ main[p] = "start"
  /\ main' = [main EXCEPT ![p] = IF ok THEN "opened" ELSE "exited"]
  /\ sync_checkpoint' = initializeDatabase(sync_checkpoint)
  /\ UNCHANGED <<db, tx, apiCache, cachedETag, inv, now, ret, snap, orphan, syncs, rd>>

\* index.ts main: createMCPServer and await server.connect(transport)
Connect(p) ==
  /\ main[p] = "opened"
  /\ main' = [main EXCEPT ![p] = "connected"]
  /\ UNCHANGED <<db, tx, sync_checkpoint, apiCache, cachedETag, inv, now, ret, snap,
                 orphan, syncs, rd>>

\* index.ts main after connect: backgroundSync(db) is called and not awaited.
\* It runs up to its first await: isSyncNeeded, and when that holds
\* performSync(db) up to the first network attempt (or to the throw of
\* startSync); main then registers the signal handlers and returns
BackgroundSync(p) ==
  /\ main[p] = "connected"
  /\ IF isSyncNeeded(sync_checkpoint, now, STALENESS_HOURS)
     THEN /\ \E i \in Inv :
               /\ InvProc(i) = p
               /\ \/ \E readOk \in BOOLEAN : PerformSync(i, FALSE, readOk)
                  \/ StartSyncThrows(i)
          /\ main' = [main EXCEPT ![p] = AfterBackgroundSync(Rejected(ret'))]
     ELSE /\ main' = [main EXCEPT ![p] = "running"]
          /\ ret' = [op |-> "backgroundSync", proc |-> p, path |-> "fresh"]
          /\ UNCHANGED <<db, tx, sync_checkpoint, apiCache, cachedETag, inv, now, snap,
                         orphan, syncs, rd>>

\* a step of the startup sync i in a server that is running; when the step
\* ends the call, backgroundSync resumes after its await
SyncStep(i, step) ==
  /\ main[InvProc(i)] = "running"
  /\ step
  /\ main' = [main EXCEPT ![InvProc(i)] =
                IF inv[i].pc # "idle" /\ inv'[i].pc = "idle"
                THEN AfterBackgroundSync(Rejected(ret')) ELSE @]

\* a tool request handled by the server of process p
ToolStep(p, step) ==
  /\ main[p] = "running"
  /\ step
  /\ UNCHANGED main

\* process p is killed, or has exited, and is launched again
Relaunch(p) ==
  /\ Restart(p)
  /\ main' = [main EXCEPT ![p] = "start"]

\* the process that is launched (no other instance of the server runs)
Servers == {1}

\* a server from its launch on: backgroundSync is the only caller of
\* performSync, and the query tools are served meanwhile. No attempt is
\* answered 304: the api_cache table does not exist and the ETag kept in
\* memory starts empty with the process
NextLaunch ==
  \/ \E p \in Servers, ok \in BOOLEAN : GetDatabase(p, ok)
  \/ \E p \in Servers : Connect(p)
  \/ \E p \in Servers : BackgroundSync(p)
  \/ \E i \in Inv, msg \in FetchErrors : SyncStep(i, FetchFails(i, msg))
  \/ \E i \in Inv : SyncStep(i, SleepDone(i))
  \/ \E i \in Inv, fs \in Payloads, e \in Tokens \cup {NoETag} :
        SyncStep(i, FetchOk(i, fs, e, TRUE))
  \/ \E i \in Inv : SyncStep(i, TxStep(i))
  \/ \E i \in Inv : SyncStep(i, TxStorageError(i))
  \/ \E i \in Inv : SyncStep(i, TxCommit(i))
  \/ \E i \in Inv : SyncStep(i, Finalize(i, TRUE))
  \/ \E i \in Inv : SyncStep(i, CatchError(i))
  \/ \E i \in Inv : SyncStep(i, CatchErrorThrows(i))
  \/ \E p \in Servers, id \in Ids : ToolStep(p, GetByIdRow(p, id))
  \/ \E p \in Servers : ToolStep(p, GetByIdTags(p))
  \/ \E p \in Servers : ToolStep(p, SearchRows(p))
  \/ \E p \in Servers : ToolStep(p, SearchTags(p))
  \/ \E p \in Servers : Relaunch(p)

SpecLaunch == InitLaunch /\ [][NextLaunch]_vars

\* ------------------------------------------------- a server and its callers
\* a server from its launch on with every caller of performSync: the startup
\* sync, the sync tool and a direct call (forced or not); the process can be
\* killed and launched again at any point
NextServer ==
  \/ \E p \in Servers, ok \in BOOLEAN : GetDatabase(p, ok)
  \/ \E p \in Servers : Connect(p)
  \/ \E p \in Servers : BackgroundSync(p)
  \/ \E i \in Inv, args \in SyncArgsValues :
        ToolStep(InvProc(i), HandleSyncM365Roadmap(i, args))
  \/ \E i \in Inv, force \in BOOLEAN :
        ToolStep(InvProc(i), PerformSync(i, force, TRUE))
  \/ \E i \in Inv : SyncStep(i, FetchNotModified(i))
  \/ \E i \in Inv, fs \in Payloads, e \in Tokens \cup {NoETag} :
        SyncStep(i, FetchOk(i, fs, e, TRUE))
  \/ \E i \in Inv : SyncStep(i, TxStep(i))
  \/ \E i \in Inv : SyncStep(i, TxStorageError(i))
  \/ \E i \in Inv : SyncStep(i, TxCommit(i))
  \/ \E i \in Inv : SyncStep(i, Finalize(i, TRUE))
  \/ \E i \in Inv : SyncStep(i, CatchError(i))
  \/ \E p \in Servers : Relaunch(p)

SpecServer == InitLaunch /\ [][NextServer]_vars

\* ------------------------------------------------------------------ claims
\* the latest step ended a performSync call
SyncEnded == ret.op = "performSync"

\* the errors a failed write surfaces
WriteErrors == { WriteError(id) : id \in Ids }

\* C1: a performSync call started while the checkpoint status is 'syncing'
\* returns the failure result 'Sync already in progress', starts no fetch,
\* writes nothing to features, associations or the stored token, and leaves
\* the checkpoint row as it was.
C1_ConflictChangesNothing ==
  [][\A i \in Inv, force \in BOOLEAN, readOk \in BOOLEAN :
       (cp.syncStatus = "syncing" /\ PerformSync(i, force, readOk)) =>
         /\ ret' = Returns(i, "conflict",
                           createSyncFailureResult("Sync already in progress"))
         /\ ret'.result.success = FALSE
         /\ db' = db /\ tx' = tx /\ apiCache' = apiCache /\ cp' = cp
         /\ cachedETag' = cachedETag
         /\ inv' = inv]_vars

C1_Witness ==
  /\ SyncEnded /\ ret.path = "conflict"
  /\ cp.syncStatus = "syncing"
  /\ \E h \in Holders : inv[h].pc = "fetching"

\* C2: at any time at most one performSync call is between its successful
\* startSync and its completeSyncSuccess / completeSyncFailure, whether the
\* calls run in one process or in two, so at most one write transaction is open.
C2_AtMostOneHolder ==
  /\ Cardinality(Holders) <= 1
  /\ tx # NoTx => Cardinality({ i \in Inv : inv[i].pc = "writing" }) = 1

C2_Witness ==
  /\ SyncEnded /\ ret.path = "conflict"
  /\ \E h \in Holders : inv[h].pc = "writing" /\ InvProc(h) # InvProc(ret.inv)

\* C3: whenever a performSync call that acquired the lock has ended, by
\* whatever path, the checkpoint status is 'idle'.
C3_IdleAfterConclusion ==
  (SyncEnded /\ ret.path \notin {"conflict", "rejectedAtLock"}) => cp.syncStatus = "idle"

\* C4: when a statement of the write transaction fails, nothing of the batch
\* is committed: as the call returns, the tables and the watermark equal
\* their pre-sync values, the checkpoint keeps its lastSync and recordCount,
\* last_error holds the error message and the result has success = false.
C4_FailedWriteCommitsNothing ==
  [][\A i \in Inv :
       (inv[i].pc = "catch" /\ inv[i].err \in WriteErrors) =>
         /\ db = snap.tables
         /\ (SyncEnded' /\ ret'.inv = i) =>
              /\ db' = snap.tables
              /\ getLastModified(db') = getLastModified(snap.tables)
              /\ cp'.lastSync = snap.cp.lastSync
              /\ cp'.recordCount = snap.cp.recordCount
              /\ cp'.lastError = inv[i].err
              /\ ret'.result.success = FALSE
              /\ ret'.result.error = inv[i].err]_vars

C4_Witness ==
  \E i \in Inv :
    /\ inv[i].pc = "catch" /\ inv[i].err \in WriteErrors
    /\ inv[i].processed >= 1
    /\ snap.tables # EmptyTables
    /\ db = snap.tables

\* C5: after the write of a sync that fetched a modified set, exactly the
\* fetched records whose modified timestamp is greater than the watermark
\* the store had before the sync (all of them when the store was empty) are
\* stored as fetched, and every other feature and its associations are as
\* they were before the sync.
C5_ExactlyNewerWritten ==
  \A i \in Inv : inv[i].pc = "finalize" =>
    LET fs == inv[i].features
        wm == getLastModified(snap.tables)
        newer == { k \in 1..Len(fs) :
                     StoredIds(snap.tables) = {} \/ fs[k].modified > wm }
    IN /\ inv[i].processed = Cardinality(newer)
       /\ \A id \in Ids :
            IF \E k \in newer : fs[k].id = id
            THEN getFeatureById(db, id) =
                   StoredAs(fs[CHOOSE k \in newer : fs[k].id = id])
            ELSE /\ getFeatureRow(db, id) = getFeatureRow(snap.tables, id)
                 /\ getFeatureTags(db, id) = getFeatureTags(snap.tables, id)

C5_Witness ==
  \E i \in Inv :
    /\ inv[i].pc = "finalize"
    /\ StoredIds(snap.tables) # {}
    /\ \E k \in 1..Len(inv[i].features) :
         inv[i].features[k].modified <= getLastModified(snap.tables)
    /\ \E k \in 1..Len(inv[i].features) :
         inv[i].features[k].modified > getLastModified(snap.tables)

\* the step in which call i returns from the not-modified path
NotModifiedReturn(i) ==
  /\ inv[i].pc = "fetching"
  /\ SyncEnded' /\ ret'.inv = i /\ ret'.path = "notModified"

\* C6 as stated: on not-modified the sync succeeds with recordsProcessed = 0,
\* writes no feature or association row, and leaves the checkpoint's record
\* count and last-sync value as they were.
C6_NotModifiedKeepsCheckpoint ==
  [][\A i \in Inv : NotModifiedReturn(i) =>
       /\ ret'.result.success /\ ret'.result.recordsProcessed = 0
       /\ db' = db /\ tx' = tx
       /\ cp'.recordCount = cp.recordCount
       /\ cp'.lastSync = cp.lastSync]_vars

\* C6 amended: on not-modified the sync succeeds with recordsProcessed = 0
\* and writes no feature or association row, so the store's watermark (max
\* modified) is unchanged; the checkpoint's record count is set to the number
\* of stored features and its last-sync value to the current time.
C6_NotModifiedKeepsStore ==
  [][\A i \in Inv : NotModifiedReturn(i) =>
       /\ ret'.result.success /\ ret'.result.recordsProcessed = 0
       /\ db' = db /\ tx' = tx
       /\ getLastModified(db') = getLastModified(db)
       /\ cp'.recordCount = getFeatureCount(db)
       /\ cp'.lastSync = now
       /\ cp'.syncStatus = "idle"]_vars

C6_Witness ==
  /\ SyncEnded /\ ret.path = "notModified"
  /\ StoredIds(db) # {}
  /\ cp.lastSync = now
  /\ cp.lastSync # getLastModified(db)

\* C7: performSync never rejects: a call that ends has resolved, and a
\* resolved failure other than the lock conflict is recorded in the checkpoint.
C7_NeverRejects ==
  SyncEnded =>
    /\ ret.path \notin {"rejectedAtLock", "rejectedInCatch"}
    /\ ret.path = "failed" => (~ret.result.success /\ cp.lastError = ret.result.error)

\* C8: every getById and every search returns what one committed store
\* holds: the store as it was when the query started or as it is when the
\* query returns, never a row of one with the associations of the other.
C8_ReadsSeeOneStore ==
  /\ ret.op = "getById" =>
       ret.value \in { getFeatureById(ret.started, ret.id), getFeatureById(db, ret.id) }
  /\ ret.op = "search" =>
       ret.value \in { searchFeatures(ret.started), searchFeatures(db) }

\* C9: after the process that held the lock was killed inside the write
\* transaction and the store was reopened, every table equals its pre-sync
\* contents.
C9_KilledWriterLeavesPreSyncStore ==
  orphan.pc = "writing" => db = snap.tables

C9_Witness ==
  /\ orphan.pc = "writing"
  /\ db = snap.tables
  /\ StoredIds(snap.tables) # {}
  /\ \E id \in Ids :
       /\ getFeatureRow(orphan.tx, id) # getFeatureRow(snap.tables, id)
       /\ getFeatureTags(orphan.tx, id) = getFeatureTags(snap.tables, id)

\* C10: one fetch makes at most 3 attempts; a failed attempt k < 3 is
\* followed by a wait of 1000 ms (k = 1) or 2000 ms (k = 2) and then attempt
\* k + 1; the error of the 3rd failed attempt goes to the caller with no
\* further wait or attempt, and a fetch error reaches the caller only then.
C10_RetrySchedule ==
  [][\A i \in Inv :
       /\ (inv[i].pc = "idle" /\ inv'[i].pc = "fetching") => inv'[i].attempt = 1
       /\ (inv[i].pc = "fetching" /\ inv'[i].pc = "sleeping") =>
            /\ inv[i].attempt < 3
            /\ inv'[i].attempt = inv[i].attempt
            /\ inv'[i].delay = IF inv[i].attempt = 1 THEN 1000 ELSE 2000
       /\ (inv[i].pc = "sleeping" /\ inv'[i].pc = "fetching") =>
            /\ inv'[i].attempt = inv[i].attempt + 1
            /\ inv'[i].attempt <= 3
       /\ (inv[i].pc = "fetching" /\ inv[i].attempt = 3) =>
            /\ inv'[i].pc # "sleeping"
            /\ inv'[i].pc = "fetching" => inv'[i] = inv[i]
       /\ (inv[i].pc = "fetching" /\ inv'[i].pc = "catch"
             /\ inv'[i].err \in FetchErrors) => inv[i].attempt = 3]_vars

C10_Witness ==
  \E i \in Inv :
    /\ inv[i].pc = "catch"
    /\ inv[i].attempt = 3
    /\ inv[i].err \in FetchErrors

\* C11: fetchAllFeaturesWithETag(useCache): with useCache = true and a cached
\* token t the request carries t as validator, and a not-modified answer
\* yields {modified: false, features: [], etag: t}; with useCache = false no
\* validator is sent whatever the cached token is; a 2xx answer yields
\* modified = true with the full record array and the response's token (none
\* when the source sends none).  performSync calls it with useCache = !force.
C11_FetchContract ==
  [][\A i \in Inv :
       LET p == InvProc(i)
       IN /\ \A force \in BOOLEAN, readOk \in BOOLEAN :
               (PerformSync(i, force, readOk) /\ inv'[i].pc = "fetching")
                 => inv'[i].ifNoneMatch = (IF force THEN NoETag ELSE cachedETag'[p])
          /\ FetchNotModified(i)
               => NotModifiedResult(cachedETag[p]) =
                    [modified |-> FALSE, features |-> <<>>,
                     etag |-> inv[i].ifNoneMatch]
          /\ \A fs \in Payloads, e \in Tokens \cup {NoETag} :
               (FetchOk(i, fs, e, TRUE) /\ inv'[i].pc \in {"writing", "finalize"})
                 => /\ ModifiedResult(fs, e) =
                         [modified |-> TRUE, features |-> fs, etag |-> e]
                    /\ inv'[i].features = fs /\ inv'[i].etag = e]_vars

\* a conditional request that carried the cached token was answered
\* not-modified, in a run in which an earlier 2xx answer supplied that token
C11_Witness ==
  /\ SyncEnded /\ ret.path = "notModified"
  /\ cachedETag[InvProc(ret.inv)] \in Tokens
  /\ syncs = MaxSyncs

\* the step in which call i returns from the write path (the fetched set,
\* inv[i].features, is not empty there)
WrittenReturn(i) ==
  /\ inv[i].pc = "finalize"
  /\ SyncEnded' /\ ret'.inv = i /\ ret'.path = "written"

\* the maximum modified over the fetched set fs
MaxModified(fs) == MaxOver({ fs[k].modified : k \in 1..Len(fs) }, EPOCH)

\* C12 as stated: after a successful sync that fetched a non-empty modified
\* set, the checkpoint is {status 'idle', lastSync = the maximum modified over
\* the fetched set, recordCount = number of stored features after the write,
\* duration set, last_error = null}.
C12_CheckpointIsMaxModified ==
  [][\A i \in Inv : WrittenReturn(i) =>
       /\ cp'.syncStatus = "idle"
       /\ cp'.lastSync = MaxModified(inv[i].features)
       /\ cp'.recordCount = getFeatureCount(db')
       /\ cp'.lastSyncDurationMs >= 0
       /\ cp'.lastError = Null]_vars

\* C12 amended: after a successful sync that fetched a non-empty modified
\* set, the checkpoint is {status 'idle', lastSync = the larger of the maximum
\* modified over the fetched set and the checkpoint's previous lastSync,
\* recordCount = number of stored features after the write, duration set,
\* last_error = null}.
C12_CheckpointIsMaxWithPrevious ==
  [][\A i \in Inv : WrittenReturn(i) =>
       LET m == MaxModified(inv[i].features)
       IN /\ cp'.syncStatus = "idle"
          /\ cp'.lastSync = (IF m > cp.lastSync THEN m ELSE cp.lastSync)
          /\ cp'.recordCount = getFeatureCount(db')
          /\ cp'.lastSyncDurationMs >= 0
          /\ cp'.lastError = Null]_vars

\* a write-path sync has returned on a checkpoint whose lastSync an earlier
\* not-modified or empty sync had set to the wall clock, which is later than
\* every modified value stored
C12_Witness ==
  /\ SyncEnded /\ ret.path = "written" /\ ret.result.recordsProcessed > 0
  /\ cp.lastSync = now
  /\ getLastModified(db) < cp.lastSync
  /\ cp.recordCount = getFeatureCount(db)

\* C13: after a successful sync whose fetch returned a non-null token,
\* reading the persisted token returns that token, so that a later non-forced
\* sync (also in a freshly started process, on a store created from the
\* shipped schema) restores it into the fetcher and sends it as validator.
C13_TokenPersistedAndRestored ==
  [][\A i \in Inv :
       /\ (WrittenReturn(i) /\ inv[i].etag # NoETag)
            => getStoredETag(apiCache') = inv[i].etag
       /\ (PerformSync(i, FALSE, TRUE) /\ inv'[i].pc = "fetching"
             /\ getStoredETag(apiCache) # NoETag)
            => /\ cachedETag'[InvProc(i)] = getStoredETag(apiCache)
               /\ inv'[i].ifNoneMatch = getStoredETag(apiCache)]_vars

\* the checkpoint is younger than the one-hour freshness threshold
CheckpointFresh == now - cp.lastSync < HOUR

\* the step ran no part of performSync and touched neither store nor fetcher
NothingInvoked ==
  UNCHANGED <<db, tx, sync_checkpoint, apiCache, cachedETag, inv, now, snap, orphan, syncs, rd>>

\* C14: the sync tool called without force (force false, absent, or with no
\* arguments object at all) on a store whose checkpoint is younger than the
\* 1-hour freshness threshold returns a success response reporting 'sync
\* skipped' and does not invoke performSync.
C14_FreshWithoutForceSkips ==
  [][\A i \in Inv :
       \A args \in {Undefined, SyncArgs(Undefined), SyncArgs(JsBoolean(FALSE))} :
         (HandleSyncM365Roadmap(i, args) /\ CheckpointFresh)
           => /\ ret'.op = "sync_m365_roadmap"
              /\ ret'.outcome = "response"
              /\ ~ret'.value.isError
              /\ ret'.value.data.message = "Data is fresh, sync skipped"
              /\ NothingInvoked]_vars

\* C15: the sync tool called with force = true invokes performSync with
\* force = true, regardless of how fresh the checkpoint is, and returns a
\* non-error response when that sync succeeds.
C15_ForcePropagated ==
  [][\A i \in Inv :
       /\ HandleSyncM365Roadmap(i, SyncArgs(JsBoolean(TRUE)))
            => PerformSync(i, TRUE, TRUE)
       /\ (SyncEnded' /\ ret'.inv = i /\ ret'.result.success)
            => ~SyncToolResponse(ret'.result).isError]_vars

\* C16: the sync tool called with a force value that is not a boolean (the
\* string "true") returns a validation error naming the parameter 'force'
\* and does not invoke performSync or touch storage or network.
C16_NonBooleanForceRejected ==
  [][\A i \in Inv :
       HandleSyncM365Roadmap(i, SyncArgs(JsString("true")))
         => /\ ret'.op = "sync_m365_roadmap"
            /\ ret'.outcome = "response"
            /\ ret'.value.isError
            /\ ret'.value.data.error = "Invalid parameter: force (must be a boolean)"
            /\ NothingInvoked]_vars

\* the latest step ended a search_m365_roadmap call
SearchEnded == ret.op = "search_m365_roadmap"

\* the arguments object of the call that ended (none given: the empty object)
GivenArgs == IF ret.args = Undefined THEN EmptySearchArgs ELSE ret.args

\* a text argument is given: a string that is not blank
TextGiven(v) == v.t = "string" /\ Trim(v.v) # ""
\* the text given, without the white space around it
TextOf(v) == Trim(v.v)
\* tags are given: an array with an entry that is not blank
TagsGiven(v) == v.t = "array" /\ \E k \in 1..Len(v.v) : Trim(v.v[k]) # ""

\* the number a string of decimal digits denotes
RECURSIVE DecimalValue(_)
DecimalValue(str) ==
  IF Len(str) = 0 THEN 0
  ELSE 10 * DecimalValue(SubSeq(str, 1, Len(str) - 1))
         + (IndexIn(CharAt(str, Len(str)), DecimalDigits) - 1)

\* str is YYYY-MM with month 01..12
MatchesYearMonth(str) ==
  /\ Len(str) = 7
  /\ \A k \in 1..4 : IsDigit(CharAt(str, k))
  /\ \E m \in 1..12 :
       SubSeq(str, 5, 7) = "-" \o (IF m < 10 THEN "0" ELSE "") \o ToString(m)

\* the calendar month a YYYY-MM string names, counted from year 0
MonthNumber(str) == 12 * DecimalValue(SubSeq(str, 1, 4)) + DecimalValue(SubSeq(str, 6, 7))

\* YYYY-MM of the calendar month number n
YearMonthOf(n) ==
  LET m == ((n - 1) % 12) + 1
  IN ToString((n - 1) \div 12) \o "-" \o (IF m < 10 THEN "0" ELSE "") \o ToString(m)

\* the calendar month number of the clock
CurrentMonthNumber == 12 * 1970 + (now \div MONTH) + 1

\* the request breaks one of the four rules of the search tool
InvalidSearchRequest(a) ==
  \/ /\ a.limit # Undefined
     /\ ~(a.limit.t = "number" /\ IsInteger(a.limit)
           /\ a.limit.v >= 1 /\ a.limit.v <= 10000)
  \/ /\ a.offset # Undefined
     /\ ~(a.offset.t = "number" /\ IsInteger(a.offset) /\ a.offset.v >= 0)
  \/ TextGiven(a.dateFrom) /\ ~MatchesYearMonth(TextOf(a.dateFrom))
  \/ TextGiven(a.dateTo) /\ ~MatchesYearMonth(TextOf(a.dateTo))
  \/ /\ TextGiven(a.dateFrom) /\ MatchesYearMonth(TextOf(a.dateFrom))
     /\ TextGiven(a.dateTo) /\ MatchesYearMonth(TextOf(a.dateTo))
     /\ MonthNumber(TextOf(a.dateFrom)) > MonthNumber(TextOf(a.dateTo))

NoFilterGiven(a) ==
  /\ ~TextGiven(a.query) /\ ~TagsGiven(a.products) /\ ~TagsGiven(a.platforms)
  /\ ~TextGiven(a.status) /\ ~TextGiven(a.dateFrom) /\ ~TextGiven(a.dateTo)

\* the stored rows whose GA date lies in the calendar months lo..hi
RowsWithGaIn(lo, hi) ==
  { id \in StoredIds(db) :
      LET ga == db.features[id].generalAvailabilityDate
      IN ga # Null /\ MonthNumber(ga) >= lo /\ MonthNumber(ga) <= hi }

StripNonAlnum(token) == Join(SplitFrom(token, 1, "", TRUE), "")

\* the full-text query of the text: tokens split on white space, stripped,
\* the empty ones dropped, each with '*' appended; Null when none is left
StrippedPrefixQuery(text) ==
  LET words == SplitWhitespace(Trim(text))
      kept == SelectSeq([k \in 1..Len(words) |-> StripNonAlnum(words[k])],
                        LAMBDA w : w # "")
  IN IF kept = <<>> THEN Null
     ELSE Join([k \in 1..Len(kept) |-> kept[k] \o "*"], " ")

\* C19: the full-text query is built by splitting the text on whitespace,
\* stripping every non-alphanumeric character from each token, dropping
\* tokens that become empty, and appending '*' to each remaining token
\* (joined by spaces, ANDed); when every token is dropped the result is null
\* and no full-text query is issued ("Teams (Preview)!" gives
\* "Teams* Preview*"; "(((***)))" and "--- ___ -_-" give null).
C19_QuerySanitized ==
  (SearchEnded /\ ret.outcome # "validation" /\ TextGiven(GivenArgs.query)) =>
    /\ ret.match = StrippedPrefixQuery(GivenArgs.query.v)
    /\ ret.outcome = "results"

\* C20: for every search response, totalCount is the number of rows matching
\* the filters before limit and offset are applied, and hasMore = (offset +
\* number of returned results < totalCount).
C20_Pagination ==
  (SearchEnded /\ ret.outcome = "results") =>
    LET data == ret.value.data
        matching == Cardinality(MatchingIds(db, ret.filters))
        offset == IF GivenArgs.offset = Undefined THEN 0 ELSE GivenArgs.offset.v
        limit == IF GivenArgs.limit = Undefined THEN 10000 ELSE GivenArgs.limit.v
        rest == IF matching > offset THEN matching - offset ELSE 0
    IN /\ data.totalCount = matching
       /\ Len(data.results) = (IF limit < rest THEN limit ELSE rest)
       /\ data.hasMore = (offset + Len(data.results) < data.totalCount)

\* the second page of one row out of two matching rows was returned, and
\* there is no more
C20_Witness ==
  /\ SearchEnded /\ ret.outcome = "results"
  /\ ret.filters.offset = 1 /\ ret.filters.limit = 1
  /\ Len(ret.value.data.results) = 1
  /\ ret.value.data.totalCount = 2
  /\ ~ret.value.data.hasMore

\* the tables of the store other than the feature rows and the index
AssociationsOf(t) ==
  [ products |-> t.products, platforms |-> t.platforms,
    cloudInstances |-> t.cloudInstances, releaseRings |-> t.releaseRings,
    availabilities |-> t.availabilities ]

\* C22: upsertFeature is idempotent: applying it twice with identical data
\* never raises an error and leaves exactly one row for that identifier,
\* with the same state as after the first application.
C22_UpsertIdempotent ==
  [][\A f \in StoreRecords :
       (UpsertFeature(f) /\ ret.op = "upsertFeature" /\ ret.feature = f)
         => /\ ~ret.threw /\ ~ret'.threw
            /\ db' = db
            /\ db'.features[f.id] # NoRow
            /\ Len(db'.fts[f.id]) = 1]_vars

\* the same record was applied twice in a row
C22_Witness ==
  /\ ret.op = "upsertFeature" /\ ~ret.threw
  /\ ret.old # NoRow
  /\ ret.old = UpsertedRow(NoRow, ret.feature)
  /\ db.features[ret.feature.id] = ret.old

\* C23 as stated: upsertFeature on an identifier that is already stored
\* overwrites every scalar field of the row (title, description, status, GA
\* date, preview date, created, modified) with the given values, and changes
\* none of the feature's association sets or availability entries.
C23_OverwritesEveryScalar ==
  [][\A f \in StoreRecords :
       (UpsertFeature(f) /\ db.features[f.id] # NoRow)
         => LET row == db'.features[f.id]
            IN /\ row.title = f.title /\ row.description = f.description
               /\ row.status = f.status
               /\ row.generalAvailabilityDate = f.generalAvailabilityDate
               /\ row.previewAvailabilityDate = f.previewAvailabilityDate
               /\ row.created = f.created /\ row.modified = f.modified
               /\ AssociationsOf(db') = AssociationsOf(db)]_vars

\* C23, amended: upsertFeature on an identifier that is already stored
\* overwrites the scalar fields title, description, status, GA date, preview
\* date and modified with the given values, keeps the stored created, and
\* changes none of the feature's association sets or availability entries.
C23_OverwritesAllButCreated ==
  [][\A f \in StoreRecords :
       (UpsertFeature(f) /\ db.features[f.id] # NoRow)
         => LET row == db'.features[f.id]
            IN /\ row.title = f.title /\ row.description = f.description
               /\ row.status = f.status
               /\ row.generalAvailabilityDate = f.generalAvailabilityDate
               /\ row.previewAvailabilityDate = f.previewAvailabilityDate
               /\ row.created = db.features[f.id].created
               /\ row.modified = f.modified
               /\ AssociationsOf(db') = AssociationsOf(db)]_vars

\* a stored feature that has tags was overwritten by a record with another
\* created value
C23_Witness ==
  /\ ret.op = "upsertFeature" /\ ret.old # NoRow
  /\ ret.old.created # ret.feature.created
  /\ ret.old.title # ret.feature.title
  /\ db.features[ret.feature.id].title = ret.feature.title
  /\ db.products[ret.feature.id] # <<>>

\* C24: after replaceAssociations(id, kind, tags) the stored tags of that
\* kind for that feature are exactly the given set, whatever was stored
\* before (replace [A,B] then replace [C] yields exactly [C]; an empty list
\* yields zero associations), and the tags of other kinds and of other
\* features are unchanged.  (The feature is stored and the call returns.)
C24_ReplaceIsExact ==
  [][/\ \A call \in ReplaceCalls :
          LET kind == call[1]
              id == call[2]
              tags == call[3]
          IN (ReplaceAssociations(kind, id, tags) /\ ~ret'.threw)
               => /\ RangeOf(db'[kind][id]) = RangeOf(tags)
                  /\ Len(db'[kind][id]) = Cardinality(RangeOf(tags))
                  /\ \A k \in TagKinds, j \in Ids :
                       (k # kind \/ j # id) => db'[k][j] = db[k][j]
                  /\ db'.availabilities = db.availabilities
                  /\ db'.features = db.features /\ db'.fts = db.fts
     /\ \A avs \in AvailabilityLists :
          (ReplaceAvailabilities(1, avs) /\ ~ret'.threw)
            => /\ db'.availabilities[1] = avs
               /\ \A j \in Ids \ {1} : db'.availabilities[j] = db.availabilities[j]
               /\ \A k \in TagKinds : db'[k] = db[k]
               /\ db'.features = db.features /\ db'.fts = db.fts]_vars

\* products [A, B] of a feature were replaced by [C], while the other
\* feature has products too
C24_Witness ==
  /\ ret.op = "replaceAssociations" /\ ~ret.threw
  /\ ret.kind = "products" /\ ret.id = 1
  /\ ret.old = <<"A", "B">> /\ ret.tags = <<"C">>
  /\ db.products[1] = <<"C">>
  /\ db.products[2] = <<"A", "B">>
  /\ db.platforms[1] = <<"C">>

\* the tables a statement can see: the committed ones and, while a write
\* transaction is open, its working copy
VisibleTables == {db} \cup (IF tx = NoTx THEN {} ELSE {tx})

\* C25: in every reachable state no (feature, tag) pair occurs twice in the
\* products, platforms, cloud-instances or release-rings set of a feature,
\* for every fetched input including records whose tag lists contain a
\* repeated tag.
C25_NoDuplicateTag ==
  \A t \in VisibleTables, kind \in TagKinds, id \in Ids :
    \A a, b \in 1..Len(t[kind][id]) : t[kind][id][a] = t[kind][id][b] => a = b

\* a record that repeats a product tag was fetched after feature 1 had been
\* stored with two products: its write failed and the store is as the sync
\* found it
C25_Witness ==
  \E i \in Inv :
    /\ inv[i].pc = "catch" /\ inv[i].err \in WriteErrors
    /\ \E k \in 1..Len(inv[i].features) :
         /\ inv[i].features[k].products = <<"A", "A">>
         /\ inv[i].err = WriteError(inv[i].features[k].id)
    /\ db.products[1] = <<"A", "B">>
    /\ tx = NoTx

\* C26: after any sequence of feature inserts and updates performed by
\* syncs, the full-text index holds for every stored feature exactly one
\* entry whose title and description equal the feature row's current
\* values, and no entry for an identifier that is not stored; index and
\* table change in the same transaction, so no committed state shows them
\* diverged.
C26_IndexFollowsTable ==
  \A t \in VisibleTables, id \in Ids :
    IF t.features[id] = NoRow THEN t.fts[id] = <<>>
    ELSE /\ Len(t.fts[id]) = 1
         /\ t.fts[id][1].title = t.features[id].title
         /\ t.fts[id][1].description = t.features[id].description

\* a second sync has committed an update of feature 1 that changed its
\* title and description, and inserted feature 2
C26_Witness ==
  /\ tx = NoTx /\ syncs = 2
  /\ snap.tables.features[1] # NoRow
  /\ snap.tables.features[2] = NoRow
  /\ db.features[1].title # snap.tables.features[1].title
  /\ db.features[1].description # snap.tables.features[1].description
  /\ db.features[2] # NoRow
  /\ db.fts[1] = <<FtsEntry(db.features[1])>>

\* the result items of the search response that was returned
ReturnedItems ==
  { ret.value.data.results[k].item : k \in 1..Len(ret.value.data.results) }

\* getFeatureById returned a feature with the description as stored
FullDescriptionById ==
  (ret.op = "getById" /\ ret.value # NoRow)
    => ret.value.row.description = db.features[ret.id].description

\* a description of more than 200 characters is cut to its first 200
\* characters followed by "..."
LongDescriptionCut(item, stored) ==
  (stored # Null /\ Len(stored) > 200)
    => /\ Len(item.description) = 203
       /\ SubSeq(item.description, 1, 200) = SubSeq(stored, 1, 200)
       /\ SubSeq(item.description, 201, 203) = "..."

\* C21 as stated: a search result carries the description unchanged when it
\* has at most 200 characters (null stays null) and the first 200 characters
\* followed by the marker '...' when it has more; getFeatureById for the
\* same record always returns the full, untruncated description.
C21_SummaryUnchangedUpTo200 ==
  /\ (SearchEnded /\ ret.outcome = "results") =>
       \A item \in ReturnedItems :
         LET stored == db.features[item.id].description
         IN /\ (stored = Null \/ Len(stored) <= 200) => item.description = stored
            /\ LongDescriptionCut(item, stored)
  /\ FullDescriptionById

\* C21, amended: a search result carries the description unchanged when it
\* has between 1 and 200 characters, null when it is null or empty, and the
\* first 200 characters followed by the marker '...' when it has more;
\* getFeatureById for the same record always returns the full, untruncated
\* description.
C21_SummaryNullWhenEmpty ==
  /\ (SearchEnded /\ ret.outcome = "results") =>
       \A item \in ReturnedItems :
         LET stored == db.features[item.id].description
         IN /\ (stored = Null \/ stored = "") => item.description = Null
            /\ (stored # Null /\ Len(stored) >= 1 /\ Len(stored) <= 200)
                 => item.description = stored
            /\ LongDescriptionCut(item, stored)
  /\ FullDescriptionById

\* a search returned a feature whose stored description has 250 characters
\* with a description of 203
C21_Witness ==
  /\ SearchEnded /\ ret.outcome = "results"
  /\ \E item \in ReturnedItems :
       /\ Len(db.features[item.id].description) = 250
       /\ Len(item.description) = 203

\* C27: in every reachable state after schema initialisation the sync
\* checkpoint table holds exactly one row (identity 1): no operation of the
\* sync coordinator inserts a second row or deletes the row, and every
\* checkpoint read or write addresses that row.
C27_OneCheckpointRow ==
  /\ DOMAIN sync_checkpoint = {1}
  /\ cp = sync_checkpoint[1]

\* the row has been written by a sync that succeeded and by a later one
\* that failed
C27_Witness ==
  /\ DOMAIN sync_checkpoint = {1}
  /\ sync_checkpoint[1].lastSync # EPOCH
  /\ sync_checkpoint[1].lastError # Null
  /\ sync_checkpoint[1].syncStatus = "idle"
  /\ syncs = 2

\* C28: isSyncNeeded(staleHours) returns true exactly when no checkpoint row
\* exists, or lastSync is the epoch sentinel, or the hours elapsed since
\* lastSync are at least staleHours; the call changes neither the checkpoint
\* (so it takes no lock) nor anything else in the store.
C28_IsSyncNeededExact ==
  [][ret'.op = "isSyncNeeded" /\ ret' # ret =>
       /\ ret'.value =
            ( \/ cp = NoRow
              \/ cp.lastSync = EPOCH
              \/ now - cp.lastSync >= ret'.stalenessHours * HOUR )
       /\ sync_checkpoint' = sync_checkpoint
       /\ db' = db
       /\ tx' = tx ]_vars

\* a never-synced checkpoint reported as needing a sync although fewer hours
\* than the threshold lie between the epoch and the clock
C28_Witness ==
  /\ ret.op = "isSyncNeeded"
  /\ ret.value
  /\ cp # NoRow
  /\ cp.lastSync = EPOCH
  /\ cp.syncStatus = "syncing"
  /\ now - cp.lastSync < ret.stalenessHours * HOUR

\* the startup sync of process p is in flight
StartupSyncOf(p) == { i \in Inv : InvProc(i) = p /\ inv[i].pc # "idle" }

\* the step calls performSync in process p
SyncStarts(p) ==
  \/ \E i \in Inv : InvProc(i) = p /\ inv[i].pc = "idle" /\ inv'[i].pc # "idle"
  \/ ret'.op = "performSync" /\ ret' # ret /\ InvProc(ret'.inv) = p
       /\ ret'.path \in {"conflict", "rejectedAtLock"}

\* the step ends the startup sync i of a server that stays launched
SyncEnds(i) ==
  \/ /\ inv[i].pc # "idle"
     /\ inv'[i].pc = "idle"
     /\ main'[InvProc(i)] # "start"
  \/ ret'.op = "performSync" /\ ret' # ret /\ ret'.inv = i
       /\ ret'.path \in {"conflict", "rejectedAtLock"}

\* the query tools can take a request in process p
ToolsServable(p) ==
  /\ \A id \in Ids : ENABLED ToolStep(p, GetByIdRow(p, id))
  /\ ENABLED ToolStep(p, SearchRows(p))

\* C29: the server is created and connected before the startup sync is
\* started (performSync is called only from the connected position of main,
\* and no call is in flight before it); the startup sync is not awaited:
\* while it waits on the network (an attempt in flight or a retry delay) the
\* server is running and, unless a query is already in progress, getById and
\* search requests can be handled; and however the startup sync ends
\* (resolved, failed or rejected) the server is still running.
C29_StartupSyncInBackground ==
  /\ [](\A p \in Servers :
          /\ main[p] \in {"start", "opened", "connected"} => StartupSyncOf(p) = {}
          /\ \A i \in StartupSyncOf(p) :
               inv[i].pc \in {"fetching", "sleeping"} =>
                 /\ main[p] = "running"
                 /\ rd = NoRead => ToolsServable(p))
  /\ [][\A p \in Servers :
          /\ SyncStarts(p) => main[p] = "connected"
          /\ \A i \in Inv :
               InvProc(i) = p /\ SyncEnds(i) => main'[p] = "running"]_vars

\* a search answered while the startup sync waits for its retry after a
\* failed network attempt
C29_Witness ==
  /\ main[1] = "running"
  /\ inv[1].pc = "sleeping"
  /\ ret.op = "search"

\* the launch of process p reaches the end of main in this step
LaunchCompletes(p) == main[p] = "connected" /\ main'[p] \in {"running", "exited"}

\* C30: at launch the server starts a sync exactly when the store was never
\* synced or the last sync is at least 24 hours old.
C30_SyncsAtLaunchAfter24Hours ==
  [][\A p \in Servers :
       LaunchCompletes(p) =>
         ( SyncStarts(p) <=>
             \/ cp = NoRow
             \/ cp.lastSync = EPOCH
             \/ now - cp.lastSync >= AutoSyncHours * HOUR )]_vars

\* the identifiers of the array the invocation i fetched
FetchedIds(i) == { inv[i].features[k].id : k \in 1..Len(inv[i].features) }

\* the identifiers whose fetched records an invocation is writing
BeingWritten ==
  UNION { FetchedIds(i) : i \in { j \in Inv : inv[j].pc = "writing" } }

\* C31: the set of stored feature identifiers never shrinks, and a stored
\* feature that is absent from the fetch of the sync that commits keeps its
\* row and its associations exactly as they were.
C31_NeverPruned ==
  [][\A id \in StoredIds(db) :
       /\ id \in StoredIds(db')
       /\ id \notin BeingWritten =>
            getFeatureById(db', id) = getFeatureById(db, id)]_vars

\* a sync has committed a batch without a feature that was stored before it
C31_Witness ==
  \E i \in Inv, id \in Ids :
    /\ inv[i].pc = "finalize"
    /\ inv[i].processed > 0
    /\ id \in StoredIds(snap.tables)
    /\ id \notin FetchedIds(i)
    /\ getFeatureById(db, id) = getFeatureById(snap.tables, id)

\* the positions a performSync call may move between in one step: lock and
\* first attempt, retries, diff and write, commit, checkpoint update
SyncOrder(from, to) ==
  \/ from = "idle" /\ to \in {"fetching", "catch"}
  \/ from = "fetching" /\ to \in {"sleeping", "writing", "finalize", "catch", "idle"}
  \/ from = "sleeping" /\ to = "fetching"
  \/ from = "writing" /\ to \in {"finalize", "catch"}
  \/ from = "finalize" /\ to \in {"idle", "catch"}
  \/ from = "catch" /\ to = "idle"

\* the fetched records of invocation i that pass the diff against the store
\* as it was when the sync took the lock
BatchOf(i) == FeaturesToSync(inv[i].features, getLastModified(snap.tables))

\* the committed store holds every record of the batch of invocation i
BatchStored(i) ==
  \A k \in 1..Len(BatchOf(i)) :
    LET f == BatchOf(i)[k]
    IN /\ f.id \in StoredIds(db)
       /\ db.features[f.id].modified = f.modified
       /\ db.products[f.id] = f.products

\* C32: within one sync the order is lock, fetch, diff, write commit,
\* checkpoint update: a call moves between its positions only in that order
\* (or dies with its process); while it fetches or writes it holds the lock
\* and the checkpoint still shows the lastSync and recordCount read at the
\* lock; and the step that puts the new lastSync and recordCount into the
\* checkpoint on the write path finds the transaction committed and every
\* record of the batch in the store.
C32_StrictOrder ==
  /\ [](\A i \in Inv :
          inv[i].pc \in {"fetching", "sleeping", "writing", "finalize"} =>
            /\ cp.syncStatus = "syncing"
            /\ cp.lastSync = snap.cp.lastSync
            /\ cp.recordCount = snap.cp.recordCount
            /\ inv[i].pc = "finalize" => tx = NoTx /\ BatchStored(i))
  /\ [][\A i \in Inv :
          /\ inv'[i].pc # inv[i].pc =>
               SyncOrder(inv[i].pc, inv'[i].pc) \/ Restart(InvProc(i))
          /\ ret'.op = "performSync" /\ ret' # ret /\ ret'.inv = i
               /\ ret'.path = "written" =>
               /\ inv[i].pc = "finalize"
               /\ db' = db
               /\ BatchStored(i)
               /\ cp'.recordCount = getFeatureCount(db)]_vars

\* a sync on the write path has committed a batch of two records and has
\* not updated the checkpoint yet
C32_Witness ==
  \E i \in Inv :
    /\ inv[i].pc = "finalize"
    /\ inv[i].processed = 2
    /\ Len(BatchOf(i)) = 2
    /\ cp.syncStatus = "syncing"
    /\ cp.recordCount < getFeatureCount(db)

\* the last performSync call ended in this state with a result
SyncReturned == ret.op = "performSync" /\ ~Rejected(ret)

\* C33: a successful sync reports recordsInserted = max(0, store count after
\* - store count at the start of the sync) and recordsUpdated =
\* recordsProcessed - recordsInserted, with 0 <= recordsInserted <=
\* recordsProcessed, so recordsUpdated is not negative; a not-modified sync
\* and every failed sync report 0 for all three counts.
C33_Counts ==
  [][ret'.op = "performSync" /\ ret' # ret /\ ~Rejected(ret') =>
       LET r == ret'.result
           before == getFeatureCount(snap.tables)
           after == getFeatureCount(db')
           growth == IF after > before THEN after - before ELSE 0
       IN /\ r.success /\ ret'.path = "written" =>
               /\ r.recordsInserted = growth
               /\ r.recordsUpdated = r.recordsProcessed - r.recordsInserted
               /\ 0 <= r.recordsInserted
               /\ r.recordsInserted <= r.recordsProcessed
               /\ r.recordsUpdated >= 0
          /\ ~r.success \/ ret'.path \in {"notModified", "empty"} =>
               /\ r.recordsProcessed = 0
               /\ r.recordsInserted = 0
               /\ r.recordsUpdated = 0]_vars

\* a sync that inserted one feature and updated another
C33_Witness ==
  /\ SyncReturned
  /\ ret.path = "written"
  /\ ret.result.recordsInserted = 1
  /\ ret.result.recordsUpdated = 1

RECURSIVE Flatten(_)
\* the rows of the pages, one after the other
Flatten(pages) == IF pages = <<>> THEN <<>> ELSE Head(pages) \o Flatten(Tail(pages))

\* the rows a listing has returned so far
Listed == Flatten(ret.pages)

C35_TokenOnlyAfterWrite ==
  /\ [](\A i \in Inv :
          inv[i].pc \in {"fetching", "sleeping", "writing"} =>
            getStoredETag(apiCache) = getStoredETag(snap.apiCache))
  /\ [][\A i \in Inv :
          /\ getStoredETag(apiCache') # getStoredETag(apiCache) =>
               \E j \in Inv : inv[j].pc = "finalize" /\ inv'[j].pc # "finalize"
                              /\ tx = NoTx /\ BatchStored(j)
          /\ ret'.op = "performSync" /\ ret' # ret /\ ret'.inv = i
               /\ ret'.path \in {"notModified", "empty"} =>
               getStoredETag(apiCache') = getStoredETag(snap.apiCache)
          /\ inv[i].pc \in {"fetching", "writing"} /\ inv'[i].pc = "catch" =>
               getStoredETag(apiCache') = getStoredETag(snap.apiCache)
          /\ inv[i].pc = "catch" => getStoredETag(apiCache') = getStoredETag(apiCache)
     ]_vars

\* a sync has fetched records under a new token, its write has failed, and
\* the store still holds no token
C35_Witness ==
  \E i \in Inv :
    /\ inv[i].pc = "catch"
    /\ inv[i].features # <<>>
    /\ cachedETag[InvProc(i)] # NoETag
    /\ apiCache.exists
    /\ getStoredETag(apiCache) = NoETag

\* C36: after a sync of the process has failed in its write phase (the
\* checkpoint read at the lock still carries the error of that write, so
\* nothing was committed since), the next non-forced sync of the process
\* does not end as not-modified with success.
C36_NoNotModifiedAfterFailedWrite ==
  [][ret'.op = "performSync" /\ ret' # ret /\ ret'.path = "notModified"
       /\ ret'.result.success =>
       snap.cp.lastError \notin WriteErrors]_vars

\* the checkpoint says 'syncing' and no call of a living process holds the lock
StaleLock == cp.syncStatus = "syncing" /\ Holders = {}

\* process p is killed while one of its calls holds the lock
KilledHolding(p) ==
  /\ Relaunch(p)
  /\ \E i \in Holders : InvProc(i) = p

\* C37: when the process stops between startSync and completeSyncSuccess /
\* completeSyncFailure, the checkpoint still says 'syncing' after the
\* restart; from then on no step (opening the store, isSyncNeeded in the
\* startup sync, the sync tool, a forced or unforced performSync) changes the
\* checkpoint or the store, no call acquires the lock, and every performSync
\* that returns (its lock statement ran and did not throw) returns
\* 'Sync already in progress'
C37_StaleLockStays ==
  [][ /\ (\E p \in Servers : KilledHolding(p)) => StaleLock'
      /\ StaleLock =>
           /\ StaleLock'
           /\ sync_checkpoint' = sync_checkpoint
           /\ db' = db
           /\ syncs' = syncs
           /\ (ret'.op = "performSync" /\ ~Rejected(ret')) =>
                /\ ret'.path = "conflict"
                /\ ret'.result = createSyncFailureResult("Sync already in progress") ]_vars

C37_Witness ==
  /\ orphan.pc \in Holding
  /\ StaleLock
  /\ main[1] = "running"
  /\ ret.op = "performSync"
  /\ ret.path = "conflict"

\* C38: after every successful sync that fetched a non-empty array, every
\* fetched record's identifier is stored with a modified value that is not
\* below the fetched one, whatever the store held before (also for a record
\* that is new to the store and whose modified is not above the watermark)
C38_EveryFetchedRecordStored ==
  [][\A i \in Inv :
       ( /\ ret'.op = "performSync" /\ ret' # ret /\ ret'.inv = i
         /\ ret'.path = "written" /\ ret'.result.success ) =>
       \A k \in 1..Len(inv[i].features) :
         LET f == inv[i].features[k]
         IN /\ f.id \in StoredIds(db')
            /\ db'.features[f.id].modified >= f.modified]_vars

\* the sync tool's freshness test on checkpoint c at clock: a sync has been
\* recorded less than one hour ago
ToolTreatsAsFresh(c, clock) == getSyncStatus(c, clock).hoursSinceSyncTenths < 10

\* C39: in the state a successful performSync returns in (no time has
\* passed), isSyncNeeded(h) is false for every h > 0 and the sync tool's
\* freshness test finds the data fresh, on the not-modified path, the
\* empty-fetch path and the write path alike
C39_FreshAfterSuccess ==
  [][( /\ ret'.op = "performSync" /\ ret' # ret /\ ~Rejected(ret')
       /\ ret'.result.success ) =>
       /\ \A h \in { s \in StaleHoursValues : s > 0 } :
            ~isSyncNeeded(sync_checkpoint', now', h)
       /\ ToolTreatsAsFresh(getSyncCheckpoint(sync_checkpoint'), now')]_vars

\* the array invocation i fetched holds only records the store t already
\* holds with the same modified value
RemoteUnchanged(i, t) ==
  \A k \in 1..Len(inv[i].features) :
    LET f == inv[i].features[k]
    IN f.id \in StoredIds(t) /\ t.features[f.id].modified = f.modified

\* C40: a forced performSync sends no validator, whatever token is cached or
\* persisted, and a call that sent none never ends on the not-modified path;
\* forced or not, the batch handed to the write is the fetched records whose
\* modified exceeds the store's watermark (all of them on an empty store), so
\* a sync that fetched only records the store already holds unchanged
\* processes zero records and leaves the store as it was
C40_ForceOnlyDropsValidator ==
  [][\A i \in Inv :
       /\ (PerformSync(i, TRUE, TRUE) /\ inv'[i].pc = "fetching") =>
            inv'[i].ifNoneMatch = NoETag
       /\ (inv[i].pc \in {"fetching", "sleeping"} /\ inv'[i].pc \in {"fetching", "sleeping"}) =>
            inv'[i].ifNoneMatch = inv[i].ifNoneMatch
       /\ ( /\ inv[i].pc = "fetching" /\ inv[i].ifNoneMatch = NoETag
            /\ ret'.op = "performSync" /\ ret'.inv = i ) =>
            ret'.path # "notModified"
       /\ (inv[i].pc = "fetching" /\ inv'[i].pc \in {"writing", "finalize"}) =>
            LET watermark == getLastModified(db)
                batch == IF inv'[i].pc = "writing" THEN inv'[i].queue ELSE <<>>
            IN batch = IF watermark = 0 THEN inv'[i].features
                       ELSE SelectSeq(inv'[i].features, LAMBDA f : f.modified > watermark)
       /\ ( /\ inv[i].pc = "finalize" /\ RemoteUnchanged(i, snap.tables)
            /\ ret'.op = "performSync" /\ ret'.inv = i /\ ret'.path = "written" ) =>
            /\ ret'.result.recordsProcessed = 0
            /\ db' = snap.tables]_vars

\* a forced sync (a token is persisted, yet no validator was sent) has
\* fetched the records the store already holds and has written nothing
C40_Witness ==
  \E i \in Inv :
    /\ inv[i].pc = "finalize"
    /\ snap.apiCache.etag # NoETag
    /\ inv[i].ifNoneMatch = NoETag
    /\ inv[i].features # <<>>
    /\ RemoteUnchanged(i, snap.tables)
    /\ inv[i].processed = 0
    /\ db = snap.tables

====
